---- MODULE Spec2Model ----
(***************************************************************************)
(* Model of the stock-trader research engine: the run lock of runNow, the  *)
(* runCycle pipeline with its paper-trade simulator and weight feedback,   *)
(* the regime weight adjuster and the exclusion filter of                  *)
(* buildResearchAnalysis.  JavaScript numbers are modelled as exact        *)
(* rationals [n, d]; prices are whole dollars; the clock counts ticks of   *)
(* half a day.                                                             *)
(***************************************************************************)
EXTENDS Integers, Sequences, FiniteSets, TLC

\* ------------------------------------------------------------------------
\* Bounds of the exploration
\* ------------------------------------------------------------------------
MaxCalls == 3
MaxNow == 14

\* ------------------------------------------------------------------------
\* Exact rational arithmetic standing for JavaScript number arithmetic
\* ------------------------------------------------------------------------
Abs(x) == IF x < 0 THEN -x ELSE x

RECURSIVE Gcd(_, _)
Gcd(a, b) == IF b = 0 THEN a ELSE Gcd(b, a % b)

Rat(n, d) ==
  LET g == Gcd(Abs(n), Abs(d))
      s == IF d < 0 THEN -1 ELSE 1
  IN  [n |-> (s * n) \div g, d |-> (s * d) \div g]

\* sums over the least common denominator, to keep the integers small
RAdd(a, b) ==
  LET g == Gcd(a.d, b.d)
  IN  Rat(a.n * (b.d \div g) + b.n * (a.d \div g), (a.d \div g) * b.d)
RSub(a, b) ==
  LET g == Gcd(a.d, b.d)
  IN  Rat(a.n * (b.d \div g) - b.n * (a.d \div g), (a.d \div g) * b.d)
RMul(a, b) == Rat(a.n * b.n, a.d * b.d)
RDiv(a, b) == Rat(a.n * b.d, a.d * b.n)
RLt(a, b) ==
  LET g == Gcd(a.d, b.d) IN a.n * (b.d \div g) < b.n * (a.d \div g)
RLe(a, b) ==
  LET g == Gcd(a.d, b.d) IN a.n * (b.d \div g) <= b.n * (a.d \div g)
RZero == [n |-> 0, d |-> 1]
ROne == [n |-> 1, d |-> 1]
\* SQL NULL / undefined in a numeric column
NullRat == [n |-> 0, d |-> 0]

RECURSIVE RSumSeq(_)
RSumSeq(s) == IF s = <<>> THEN RZero ELSE RAdd(s[1], RSumSeq(Tail(s)))

Min(a, b) == IF a < b THEN a ELSE b

\* ------------------------------------------------------------------------
\* Program constants
\* ------------------------------------------------------------------------
\* Clock ticks per day: the divisor (1000 * 60 * 60 * 24) of ageDays, with the
\* millisecond clock coarsened to half days.
TicksPerDay == 2
\* horizonDays of every paper trade built by buildPaperTrades
HorizonDays == 7
\* decision.research.ranked.slice(0, 5)
TopN == 5
\* MAX_PAPER_TRADES of db.ts
MAX_PAPER_TRADES == 500
\* closures.length < 3 of updateWeightsFromClosures
MinClosures == 3

\* lr = 0.05 of updateWeightsFromClosures
LearningRate == Rat(5, 100)
\* c.returnPct >= -0.05 of logResearchErrorsFromClosures
LossThreshold == Rat(-5, 100)

\* Object.keys(config.trading.research.weights), in insertion order
WeightKeys ==
  <<"fundamentals", "technicals", "macro", "sentiment", "quality", "valuation">>
WeightKeySet == {WeightKeys[i] : i \in DOMAIN WeightKeys}

\* getRiskDefaults("balanced").weights, the vector loadConfig installs
BalancedWeights ==
  [k \in WeightKeySet |->
     CASE k = "fundamentals" -> Rat(30, 100)
       [] k = "technicals" -> Rat(25, 100)
       [] k = "macro" -> Rat(15, 100)
       [] k = "sentiment" -> Rat(10, 100)
       [] k = "quality" -> Rat(10, 100)
       [] k = "valuation" -> Rat(10, 100)]

\* ------------------------------------------------------------------------
\* Inputs of a cycle: market snapshots and the language model's ranking
\* ------------------------------------------------------------------------
Symbols == {"AAPL", "MSFT", "NVDA"}

\* price == null
NoPrice == -1

QNone == [bar |-> NoPrice, trade |-> NoPrice]
QZero == [bar |-> 0, trade |-> 100]
Q90 == [bar |-> 90, trade |-> NoPrice]
Q95 == [bar |-> NoPrice, trade |-> 95]
Q100 == [bar |-> 100, trade |-> NoPrice]
Q110 == [bar |-> 110, trade |-> 95]

Quote(a, m, n) ==
  [s \in Symbols |-> CASE s = "AAPL" -> a [] s = "MSFT" -> m [] s = "NVDA" -> n]

\* Results of marketData.getSnapshots explored: a zero daily close beside a
\* symbol at 100 and a symbol without quote, a mixed day (-10%, -5%, 0% from
\* 100) and an up day (+10%, +10%, -10% from 100).
MarketSnapshots ==
  { Quote(QZero, Q100, QNone),
    Quote(Q90, Q95, Q100),
    Quote(Q110, Q110, Q90) }

Score(name, tenths) == [name |-> name, score |-> Rat(tenths, 10)]

\* scorecard.factors arrays returned by the language model
FHigh == <<Score("technicals", 8), Score("macro", 5)>>
FLow == <<Score("technicals", 2), Score("macro", 5)>>
FTie == <<Score("macro", 4), Score("technicals", 4), Score("momentum", 9)>>
FRepeat == <<Score("technicals", 9), Score("macro", 6), Score("technicals", 6)>>
FNone == <<>>

Ranked(symbol, factors) == [symbol |-> symbol, factors |-> factors]

\* decision.research.ranked lists explored: three distinct symbols, one
\* symbol twice, an entry without factors, and a list of six entries, four
\* of them for a symbol the snapshots never hold.
Rankings ==
  { <<Ranked("AAPL", FHigh), Ranked("MSFT", FLow), Ranked("NVDA", FTie)>>,
    <<Ranked("AAPL", FLow), Ranked("AAPL", FHigh)>>,
    <<Ranked("MSFT", FNone), Ranked("NVDA", FRepeat)>>,
    <<Ranked("AAPL", FHigh), Ranked("TSLA", FLow), Ranked("TSLA", FLow),
      Ranked("TSLA", FLow), Ranked("TSLA", FLow), Ranked("NVDA", FLow)>> }

\* Steps by which the wall clock is observed to advance
\* a decision of getTradingDecision with the outcome of its adversarial
\* review: the review of the decision without factor scores rejects
Decisions ==
  {[ranked |-> r, reviewFails |-> (r[1].factors = FNone)] : r \in Rankings}

ClockSteps == {3 * TicksPerDay, 3 * TicksPerDay + 1}

\* ------------------------------------------------------------------------
\* State
\* ------------------------------------------------------------------------
VARIABLES
  isRunning,        \* index.ts: let isRunning
  activeCycles,     \* number of runCycle invocations that have not ended
  triggers,         \* runNow invocations so far (scheduled or on demand)
  lastCall,         \* the latest call served: how runNow went on, or a query
  now,              \* wall clock, in ticks
  weights,          \* config.trading.research.weights
  paperTrades,      \* table paper_trades, ascending id
  nextTradeId,      \* AUTOINCREMENT sequence of paper_trades
  researchWeights,  \* table research_weights, ascending id
  researchErrors,   \* table research_errors, ascending id
  runs,             \* table runs, ascending id
  cpc,              \* await point of the running cycle
  openPaperTrades,  \* runCycle local: getOpenPaperTrades() at cycle start
  snapshots,        \* runCycle local
  wIn, wRegime, wResult, fbClosures, fbTrades, fbResult, \* weight functions
  aConfig, aData, aPositions, aResult,                    \* analysis
  aSnapshots,       \* snapshots handed to buildResearchAnalysis
  aClock,           \* Date.now() during the call, in days
  aAgain,           \* result of a second call on the same inputs
  sIn, sOut,        \* inputs and results of the factor scorers
  tIn, tOut,        \* inputs and results of the threshold scorers
  xIn, xOut         \* inputs and results of the order pipeline

vars ==
  <<isRunning, activeCycles, triggers, lastCall, now, weights, paperTrades,
    nextTradeId, researchWeights, researchErrors, runs, cpc, openPaperTrades,
    snapshots,
    wIn, wRegime, wResult, fbClosures, fbTrades, fbResult,
    aConfig, aData, aPositions, aResult, aSnapshots, aClock, aAgain, sIn, sOut,
    tIn, tOut, xIn, xOut>>

cycleVars ==
  <<isRunning, activeCycles, triggers, lastCall, now, weights, paperTrades,
    nextTradeId, researchWeights, researchErrors, runs, cpc, openPaperTrades,
    snapshots>>
weightVars == <<wIn, wRegime, wResult, fbClosures, fbTrades, fbResult>>
callVars == <<tIn, tOut, xIn, xOut>>
analysisVars ==
  <<aConfig, aData, aPositions, aResult, aSnapshots, aClock, aAgain, sIn, sOut,
    callVars>>

\* ------------------------------------------------------------------------
\* Paper-trade simulator (run-cycle) and its storage (db.ts)
\* ------------------------------------------------------------------------
\* snap?.dailyBar?.c ?? snap?.latestTrade?.p
PriceOf(snap) == IF snap.bar # NoPrice THEN snap.bar ELSE snap.trade

\* snapshots[symbol], undefined for a symbol the snapshots do not hold
SnapOf(snaps, symbol) == IF symbol \in DOMAIN snaps THEN snaps[symbol] ELSE QNone

\* factors[f.name] = f.score: a repeated name overwrites the value in place
SetFactor(obj, f) ==
  IF \E i \in DOMAIN obj : obj[i].name = f.name
  THEN [i \in DOMAIN obj |-> IF obj[i].name = f.name THEN f ELSE obj[i]]
  ELSE Append(obj, f)

RECURSIVE FactorsFrom(_, _)
FactorsFrom(arr, obj) ==
  IF arr = <<>> THEN obj ELSE FactorsFrom(Tail(arr), SetFactor(obj, arr[1]))

\* if (openSymbols.has(c.symbol)) continue
AlreadyOpen(symbol, openTrades) ==
  \E i \in DOMAIN openTrades : openTrades[i].symbol = symbol

\* decision.research.ranked.slice(0, 5)
TopCandidates(ranked) == SubSeq(ranked, 1, Min(TopN, Len(ranked)))

buildPaperTrades(ranked, snaps, openTrades, t) ==
  LET Opens(c) == /\ ~AlreadyOpen(c.symbol, openTrades)
                  /\ PriceOf(SnapOf(snaps, c.symbol)) # NoPrice
      picked == SelectSeq(TopCandidates(ranked), Opens)
  IN  [i \in DOMAIN picked |->
         [symbol |-> picked[i].symbol,
          entryAt |-> t,
          entryPrice |-> PriceOf(SnapOf(snaps, picked[i].symbol)),
          horizonDays |-> HorizonDays,
          factors |-> FactorsFrom(picked[i].factors, <<>>)]]

\* DELETE ... WHERE id NOT IN (SELECT id ... ORDER BY id DESC LIMIT ?)
Prune(table, limit) ==
  IF Len(table) > limit THEN SubSeq(table, Len(table) - limit + 1, Len(table))
  ELSE table

insertPaperTrades(table, trades, firstId) ==
  IF trades = <<>> THEN table
  ELSE Prune(table \o
         [i \in DOMAIN trades |->
            [id |-> firstId + i - 1,
             symbol |-> trades[i].symbol,
             entryAt |-> trades[i].entryAt,
             entryPrice |-> trades[i].entryPrice,
             horizonDays |-> trades[i].horizonDays,
             factors |-> trades[i].factors,
             status |-> "open",
             exitAt |-> -1,
             exitPrice |-> NoPrice,
             returnPct |-> NullRat]],
         MAX_PAPER_TRADES)

IsOpen_All(row) == TRUE

IsOpen(row) == row.status = "open"

\* SELECT ... FROM paper_trades WHERE status = 'open' ORDER BY id ASC
getOpenPaperTrades(table) == SelectSeq(table, IsOpen)

\* if (ageDays < trade.horizonDays) continue, ageDays = (now - entry) / day
HorizonReached(trade, t) ==
  ~(t - trade.entryAt < trade.horizonDays * TicksPerDay)

\* if (price == null || trade.entryPrice === 0) continue
CanPrice(trade, snaps) ==
  ~(PriceOf(SnapOf(snaps, trade.symbol)) = NoPrice \/ trade.entryPrice = 0)

evaluatePaperTrades(openTrades, snaps, t) ==
  LET Due(trade) == HorizonReached(trade, t) /\ CanPrice(trade, snaps)
      due == SelectSeq(openTrades, Due)
  IN  [i \in DOMAIN due |->
         [id |-> due[i].id,
          exitAt |-> t,
          exitPrice |-> PriceOf(SnapOf(snaps, due[i].symbol)),
          returnPct |-> RDiv(Rat(PriceOf(SnapOf(snaps, due[i].symbol)) - due[i].entryPrice, 1),
                             Rat(due[i].entryPrice, 1))]]

\* UPDATE paper_trades SET status = 'closed', ... WHERE id = ?
closePaperTrades(table, closings) ==
  [i \in DOMAIN table |->
     IF \E j \in DOMAIN closings : closings[j].id = table[i].id
     THEN LET j == CHOOSE j \in DOMAIN closings :
                     /\ closings[j].id = table[i].id
                     /\ \A k \in DOMAIN closings :
                          closings[k].id = table[i].id => k <= j
          IN  [table[i] EXCEPT !.status = "closed",
                               !.exitAt = closings[j].exitAt,
                               !.exitPrice = closings[j].exitPrice,
                               !.returnPct = closings[j].returnPct]
     ELSE table[i]]

\* ------------------------------------------------------------------------
\* Weight feedback (run-cycle)
\* ------------------------------------------------------------------------
\* tradeMap.has(id), tradeMap.get(id): new Map(openTrades.map(t => [t.id, t]))
HasTrade(openTrades, id) == \E i \in DOMAIN openTrades : openTrades[i].id = id

TradeOf(openTrades, id) ==
  openTrades[CHOOSE i \in DOMAIN openTrades :
               /\ openTrades[i].id = id
               /\ \A k \in DOMAIN openTrades : openTrades[k].id = id => k <= i]

HasFactor(factors, key) == \E i \in DOMAIN factors : factors[i].name = key

FactorValue(factors, key) ==
  factors[CHOOSE i \in DOMAIN factors : factors[i].name = key].score

IsWinner_Strict(c) == RLt(RZero, c.returnPct)

\* c.returnPct >= 0 ? winners : losers
IsWinner(c) == ~RLt(c.returnPct, RZero)

\* winners[key] (win = TRUE) or losers[key] (win = FALSE), in closure order
RECURSIVE Bucket(_, _, _, _)
Bucket(closures, openTrades, key, win) ==
  IF closures = <<>> THEN <<>>
  ELSE LET c == closures[1]
           rest == Bucket(Tail(closures), openTrades, key, win)
       IN  IF /\ HasTrade(openTrades, c.id)
              /\ IsWinner(c) = win
              /\ HasFactor(TradeOf(openTrades, c.id).factors, key)
           THEN <<FactorValue(TradeOf(openTrades, c.id).factors, key)>> \o rest
           ELSE rest

\* average of run-cycle: null for a missing or empty list
average(values) ==
  IF values = <<>> THEN NullRat
  ELSE RDiv(RSumSeq(values), Rat(Len(values), 1))

\* weights[key] = weights[key] + lr * delta, skipped when a group is empty
AdjustedWeight(w, closures, openTrades, key) ==
  LET winAvg == average(Bucket(closures, openTrades, key, TRUE))
      loseAvg == average(Bucket(closures, openTrades, key, FALSE))
  IN  IF winAvg = NullRat \/ loseAvg = NullRat THEN w[key]
      ELSE RAdd(w[key], RMul(LearningRate, RSub(winAvg, loseAvg)))

SumWeights(w) == RSumSeq([i \in DOMAIN WeightKeys |-> w[WeightKeys[i]]])

\* Object.values(w).reduce((a, b) => a + b, 0) || 1
SumOrOne(w) == IF SumWeights(w) = RZero THEN ROne ELSE SumWeights(w)

Renormalize_None(w) == w

\* out[key] = out[key] / sum
Renormalize(w) == [k \in WeightKeySet |-> RDiv(w[k], SumOrOne(w))]

\* the null result of updateWeightsFromClosures
NoWeights == [k \in WeightKeySet |-> NullRat]

TooFewClosures_Two(closures) == Len(closures) < MinClosures - 1

\* if (closures.length < 3) return null
TooFewClosures(closures) == Len(closures) < MinClosures

updateWeightsFromClosures(closures, openTrades, w) ==
  IF TooFewClosures(closures) THEN NoWeights
  ELSE Renormalize([k \in WeightKeySet |->
                      AdjustedWeight(w, closures, openTrades, k)])

\* Object.entries(trade.factors).sort((a, b) => a[1] - b[1])[0]: the sort is
\* stable, so the first of the entries with the least value
Weakest(factors) ==
  factors[CHOOSE i \in DOMAIN factors :
            /\ \A j \in DOMAIN factors : ~RLt(factors[j].score, factors[i].score)
            /\ \A j \in DOMAIN factors :
                 j < i => RLt(factors[i].score, factors[j].score)]

\* rule column NULL
NoRule == ""

BelowLossThreshold_Inclusive(c) == RLe(c.returnPct, LossThreshold)

\* if (c.returnPct >= -0.05) continue
BelowLossThreshold(c) == ~(~RLt(c.returnPct, LossThreshold))

\* rows inserted by logResearchErrorsFromClosures, in order
RECURSIVE logResearchErrorsFromClosures(_, _)
logResearchErrorsFromClosures(closures, openTrades) ==
  IF closures = <<>> THEN <<>>
  ELSE LET c == closures[1]
           rest == logResearchErrorsFromClosures(Tail(closures), openTrades)
       IN  IF BelowLossThreshold(c) /\ HasTrade(openTrades, c.id)
           THEN LET trade == TradeOf(openTrades, c.id)
                IN  <<[symbol |-> trade.symbol,
                       reason |-> "paper trade loss",
                       rule |-> IF trade.factors = <<>> THEN NoRule
                                ELSE "weak_" \o Weakest(trade.factors).name,
                       context |-> IF trade.factors = <<>> THEN NullRat
                                   ELSE Weakest(trade.factors).score]>>
                    \o rest
           ELSE rest

getLatestResearchWeights_None(table) == NoWeights

\* SELECT ... FROM research_weights ORDER BY id DESC LIMIT 1
getLatestResearchWeights(table) ==
  IF table = <<>> THEN NoWeights ELSE table[Len(table)]

\* ------------------------------------------------------------------------
\* Regime weight adjuster (research analysis)
\* ------------------------------------------------------------------------
Regimes == {"risk_on", "risk_off", "high_vol", "neutral"}

\* the fixed +0.05 / -0.05 deltas of adjustWeightsForRegime
RegimeStep == Rat(5, 100)

RegimeDelta(regime, key) ==
  CASE regime = "high_vol" /\ key \in {"quality", "valuation"} -> RegimeStep
    [] regime = "high_vol" /\ key \in {"technicals", "sentiment"} -> RSub(RZero, RegimeStep)
    [] regime = "risk_on" /\ key \in {"technicals", "sentiment"} -> RegimeStep
    [] regime = "risk_on" /\ key \in {"valuation", "quality"} -> RSub(RZero, RegimeStep)
    [] regime = "risk_off" /\ key \in {"fundamentals", "valuation"} -> RegimeStep
    [] regime = "risk_off" /\ key \in {"technicals", "sentiment"} -> RSub(RZero, RegimeStep)
    [] OTHER -> RZero

adjustWeightsForRegime(w, regime) ==
  Renormalize([k \in WeightKeySet |-> RAdd(w[k], RegimeDelta(regime, k))])

\* ------------------------------------------------------------------------
\* runNow and runCycle
\* ------------------------------------------------------------------------
RunLockHeld_Off == FALSE

\* if (isRunning) return
RunLockHeld == isRunning

NoSnapshots == [s \in Symbols |-> QNone]

\* the lock is cleared only on the path where runCycle returns
LockAfterCycle_NoFinally(threw) == threw

\* isRunning after `try { await runCycle(...) } finally { isRunning = false }`,
\* whether runCycle returned or threw
LockAfterCycle(threw) == FALSE

\* runNow up to the first await of runCycle: the market-hours and lock
\* guards, isRunning = true, then the load of the latest weight record.
RunNow ==
  /\ triggers < MaxCalls
  /\ triggers' = triggers + 1
  /\ \E marketHours \in BOOLEAN :
       IF ~marketHours \/ RunLockHeld
       THEN /\ lastCall' = IF ~marketHours THEN "closed" ELSE "busy"
            /\ UNCHANGED <<isRunning, activeCycles, weights, cpc,
                           openPaperTrades, snapshots>>
       ELSE /\ lastCall' = "started"
            /\ isRunning' = TRUE
            /\ activeCycles' = activeCycles + 1
            /\ weights' = IF getLatestResearchWeights(researchWeights) # NoWeights
                          THEN getLatestResearchWeights(researchWeights)
                          ELSE weights
            /\ cpc' = "account"
            /\ openPaperTrades' = <<>>
            /\ snapshots' = NoSnapshots
  /\ UNCHANGED <<now, paperTrades, nextTradeId, researchWeights,
                 researchErrors, runs>>
  /\ UNCHANGED <<weightVars, analysisVars>>

\* getAccount, getPositions and getOpenOrders resolve; getOpenPaperTrades()
AwaitAccount ==
  /\ cpc = "account"
  /\ openPaperTrades' = getOpenPaperTrades(paperTrades)
  /\ cpc' = "market"
  /\ UNCHANGED <<isRunning, activeCycles, triggers, lastCall, now, weights,
                 paperTrades, nextTradeId, researchWeights, researchErrors,
                 runs, snapshots>>
  /\ UNCHANGED <<weightVars, analysisVars>>

\* the regime adjustment writes into the vector it is given
WeightsAfterAnalysis_InPlace(w, regime) == adjustWeightsForRegime(w, regime)

\* config.trading.research.weights after buildResearchAnalysis has adjusted
\* the weights for the regime: `const out = { ...weights }` works on a copy
WeightsAfterAnalysis(w, regime) == w

\* buildResearchContext (with its call of buildResearchAnalysis) and
\* marketData.getSnapshots resolve
AwaitMarket ==
  /\ cpc = "market"
  /\ \E s \in MarketSnapshots : snapshots' = s
  /\ \E regime \in Regimes : weights' = WeightsAfterAnalysis(weights, regime)
  /\ cpc' = "decide"
  /\ UNCHANGED <<isRunning, activeCycles, triggers, lastCall, now,
                 paperTrades, nextTradeId, researchWeights, researchErrors,
                 runs, openPaperTrades>>
  /\ UNCHANGED <<weightVars, analysisVars>>

\* an await before the try block rejects: runCycle throws, finally unlocks
CycleThrows ==
  /\ cpc \in {"account", "market"}
  /\ isRunning' = LockAfterCycle(TRUE)
  /\ activeCycles' = activeCycles - 1
  /\ cpc' = "idle"
  /\ openPaperTrades' = <<>>
  /\ snapshots' = NoSnapshots
  /\ UNCHANGED <<triggers, lastCall, now, weights, paperTrades, nextTradeId,
                 researchWeights, researchErrors, runs>>
  /\ UNCHANGED <<weightVars, analysisVars>>

\* The synchronous end of runCycle: evaluatePaperTrades, closePaperTrades,
\* the weight feedback, the error log, insertRun, and runNow's finally.
\* `table` is paper_trades after the try block, `errors` the errors array.
EndOfCycle(table, errors) ==
  LET closures == evaluatePaperTrades(openPaperTrades, snapshots, now)
      weightUpdate == updateWeightsFromClosures(closures, openPaperTrades, weights)
  IN  /\ paperTrades' = closePaperTrades(table, closures)
      /\ IF weightUpdate # NoWeights
         THEN /\ researchWeights' = Append(researchWeights, weightUpdate)
              /\ weights' = weightUpdate
         ELSE UNCHANGED <<researchWeights, weights>>
      /\ researchErrors' =
           researchErrors \o logResearchErrorsFromClosures(closures, openPaperTrades)
      /\ runs' = Append(runs, [errors |-> errors])
      /\ isRunning' = LockAfterCycle(FALSE)
      /\ activeCycles' = activeCycles - 1
      /\ cpc' = "idle"
      /\ openPaperTrades' = <<>>
      /\ snapshots' = NoSnapshots
      /\ UNCHANGED <<triggers, lastCall, now>>
      /\ UNCHANGED <<weightVars, analysisVars>>

\* getTradingDecision or executeActions rejects: the catch records
\* err.message, no paper trade is built, and the cycle runs to its end
TryFails ==
  /\ cpc = "decide"
  /\ UNCHANGED nextTradeId
  /\ EndOfCycle(paperTrades, <<"error">>)

\* getTradingDecision and executeActions resolve, getAdversarialReview
\* resolves or rejects into its own catch: buildPaperTrades,
\* insertPaperTrades, then the end of the cycle
FinishCycle ==
  /\ cpc = "decide"
  /\ \E d \in Decisions :
       LET trades == buildPaperTrades(d.ranked, snapshots, openPaperTrades, now)
           errors == IF d.reviewFails
                     THEN <<"Adversarial review failed">> ELSE <<>>
       IN  /\ nextTradeId' = nextTradeId + Len(trades)
           /\ EndOfCycle(insertPaperTrades(paperTrades, trades, nextTradeId), errors)

\* A dashboard query (getConfig, getLastRun, getRunHistory, getResearchRun)
\* is served while the running cycle waits at an await point; it reads the
\* configuration and the tables and writes nothing.
DashboardQuery ==
  /\ cpc \in {"account", "market", "decide"}
  /\ lastCall' = "query"
  /\ UNCHANGED <<isRunning, activeCycles, triggers, now, weights, paperTrades,
                 nextTradeId, researchWeights, researchErrors, runs, cpc,
                 openPaperTrades, snapshots>>
  /\ UNCHANGED <<weightVars, analysisVars>>

\* The process is started again while no cycle runs: loadConfig installs the
\* default weights, the database keeps its tables.  Explored only while a
\* further runNow can follow: later nothing reads the weights.
Restart ==
  /\ cpc = "idle"
  /\ triggers < MaxCalls
  /\ weights' = BalancedWeights
  /\ UNCHANGED <<isRunning, activeCycles, triggers, lastCall, now, paperTrades,
                 nextTradeId, researchWeights, researchErrors, runs, cpc,
                 openPaperTrades, snapshots>>
  /\ UNCHANGED <<weightVars, analysisVars>>

\* Time passes.  Explored while a cycle runs or a further runNow can follow:
\* the clock is read only by a cycle.
Tick ==
  /\ triggers < MaxCalls \/ cpc # "idle"
  /\ \E d \in ClockSteps : now + d <= MaxNow /\ now' = now + d
  /\ UNCHANGED <<isRunning, activeCycles, triggers, lastCall, weights,
                 paperTrades, nextTradeId, researchWeights, researchErrors,
                 runs, cpc, openPaperTrades, snapshots>>
  /\ UNCHANGED <<weightVars, analysisVars>>

IdleWeights ==
  /\ wIn = BalancedWeights /\ wRegime = "neutral" /\ wResult = NoWeights
  /\ fbClosures = <<>> /\ fbTrades = <<>> /\ fbResult = NoWeights

IdleCalls == tIn = <<>> /\ tOut = <<>> /\ xIn = <<>> /\ xOut = <<>>

IdleAnalysis ==
  /\ IdleCalls
  /\ aConfig = <<>> /\ aData = <<>> /\ aPositions = <<>> /\ aResult = <<>>
  /\ aSnapshots = <<>> /\ aClock = 0 /\ aAgain = <<>>
  /\ sIn = <<>> /\ sOut = <<>>

InitCycle ==
  /\ isRunning = FALSE
  /\ activeCycles = 0
  /\ triggers = 0
  /\ lastCall = "none"
  /\ now = 0
  /\ weights = BalancedWeights
  /\ paperTrades = <<>>
  /\ nextTradeId = 1
  /\ researchWeights = <<>>
  /\ researchErrors = <<>>
  /\ runs = <<>>
  /\ cpc = "idle"
  /\ openPaperTrades = <<>>
  /\ snapshots = NoSnapshots

Init == InitCycle /\ IdleWeights /\ IdleAnalysis

Next ==
  \/ RunNow
  \/ AwaitAccount
  \/ AwaitMarket
  \/ CycleThrows
  \/ TryFails
  \/ FinishCycle
  \/ DashboardQuery
  \/ Restart
  \/ Tick

Spec == Init /\ [][Next]_vars

\* ------------------------------------------------------------------------
\* Properties of the run lock and of the paper-trade loop (under Spec)
\* ------------------------------------------------------------------------
\* the step that ends a cycle normally (evaluatePaperTrades has run)
CycleEnds == cpc = "decide" /\ cpc' = "idle"

HasRow(table, id) == \E i \in DOMAIN table : table[i].id = id
RowOf(table, id) == table[CHOOSE i \in DOMAIN table : table[i].id = id]

\* ids of the trades closed by the current step
ClosedNow ==
  {paperTrades[i].id : i \in
     {j \in DOMAIN paperTrades :
        /\ paperTrades[j].status = "open"
        /\ HasRow(paperTrades', paperTrades[j].id)
        /\ RowOf(paperTrades', paperTrades[j].id).status = "closed"}}

\* rows appended to research_errors by the current step
NewErrors ==
  SubSeq(researchErrors', Len(researchErrors) + 1, Len(researchErrors'))

\* the k-th smallest element of a set of ids
IdAt(S, k) == CHOOSE id \in S : Cardinality({x \in S : x < id}) = k - 1

\* C1: at most one runCycle is in progress at any time; a trigger that
\* arrives while a cycle is active changes nothing (it starts no cycle), and
\* a cycle starts only in the step of a trigger that finds no cycle active,
\* so no dropped trigger is queued and run later.
C1_RunLock ==
  [][ /\ activeCycles' <= 1
      /\ (activeCycles' > activeCycles =>
            triggers' = triggers + 1 /\ activeCycles = 0)
      /\ (triggers' = triggers + 1 /\ activeCycles > 0 =>
            UNCHANGED <<activeCycles, isRunning, cpc, openPaperTrades,
                        snapshots, weights, paperTrades, runs>>) ]_vars

C1_Witness == lastCall = "busy" /\ activeCycles = 1 /\ cpc = "decide"

\* C2 (as claimed): at the end of a cycle no trade younger than its horizon
\* is closed, and every open trade whose horizon has elapsed and whose
\* symbol has a price in the snapshot is closed with
\* returnPct = (exitPrice - entryPrice) / entryPrice.
C2_ClosesAtHorizon ==
  [][ CycleEnds =>
        \A i \in DOMAIN openPaperTrades :
          LET t == openPaperTrades[i]
              age == now - t.entryAt
              price == PriceOf(SnapOf(snapshots, t.symbol))
              after == RowOf(paperTrades', t.id)
          IN  /\ age < 7 * TicksPerDay => after.status = "open"
              /\ (age >= 7 * TicksPerDay /\ price # NoPrice) =>
                   /\ after.status = "closed"
                   /\ after.exitPrice = price
                   /\ after.returnPct.d # 0
                   /\ after.returnPct.n * t.entryPrice
                        = (price - t.entryPrice) * after.returnPct.d ]_vars

\* C3: a closed paper trade stays as it is (status and exit fields are never
\* written again, it is never open again) and getOpenPaperTrades never
\* returns it.
C3_ClosedIsTerminal ==
  [][ \A i \in DOMAIN paperTrades :
        paperTrades[i].status = "closed" =>
          /\ \A k \in DOMAIN paperTrades' :
               paperTrades'[k].id = paperTrades[i].id =>
                 paperTrades'[k] = paperTrades[i]
          /\ \A j \in DOMAIN openPaperTrades' :
               openPaperTrades'[j].id # paperTrades[i].id ]_vars

C3_Witness ==
  /\ cpc = "decide"
  /\ \E i \in DOMAIN paperTrades : paperTrades[i].status = "closed"
  /\ \E i \in DOMAIN paperTrades :
       /\ paperTrades[i].status = "open"
       /\ \E j \in DOMAIN openPaperTrades : openPaperTrades[j].id = paperTrades[i].id

\* C4 (as claimed): no symbol has two open paper trades.
C4_OneOpenTradePerSymbol ==
  \A i, j \in DOMAIN paperTrades :
    (i # j /\ paperTrades[i].status = "open" /\ paperTrades[j].status = "open")
      => paperTrades[i].symbol # paperTrades[j].symbol

TagsWeakest(e, row) ==
  \E j \in DOMAIN row.factors :
    /\ e.rule = "weak_" \o row.factors[j].name
    /\ \A m \in DOMAIN row.factors :
         /\ row.factors[j].score.n * row.factors[m].score.d
              <= row.factors[m].score.n * row.factors[j].score.d
         /\ m < j => row.factors[j].score.n * row.factors[m].score.d
                       < row.factors[m].score.n * row.factors[j].score.d

\* trades closed by the current step with return <= -5% (boundary included)
LossesAtOrBelow5 ==
  {id \in ClosedNow :
     LET r == RowOf(paperTrades', id).returnPct IN r.n * 100 <= -5 * r.d}

\* trades closed by the current step with return < -5%
LossesBelow5 ==
  {id \in ClosedNow :
     LET r == RowOf(paperTrades', id).returnPct IN r.n * 100 < -5 * r.d}

\* C8 (as claimed): exactly one ResearchError, tagged weak_<lowest factor>,
\* for each trade closed with return <= -5%, the boundary -0.05 included,
\* and none for the other closures.
C8_ErrorPerLossInclusive ==
  [][ CycleEnds =>
        /\ Len(NewErrors) = Cardinality(LossesAtOrBelow5)
        /\ \A k \in DOMAIN NewErrors :
             /\ k <= Cardinality(LossesAtOrBelow5)
             /\ TagsWeakest(NewErrors[k],
                            RowOf(paperTrades', IdAt(LossesAtOrBelow5, k))) ]_vars

\* C8 (amended): exactly one ResearchError for each trade closed with return
\* strictly below -5%, in closure order, for the trade's symbol, tagged
\* weak_<factor> with the first of the lowest-valued factors of the entry
\* snapshot, or untagged when the snapshot is empty; none for closures with
\* return of -5% or above; the table is only appended to.
C8_ErrorPerLossStrict ==
  [][ /\ SubSeq(researchErrors', 1, Len(researchErrors)) = researchErrors
      /\ ~CycleEnds => researchErrors' = researchErrors
      /\ CycleEnds =>
           /\ Len(NewErrors) = Cardinality(LossesBelow5)
           /\ \A k \in DOMAIN NewErrors :
                LET row == RowOf(paperTrades', IdAt(LossesBelow5, k))
                IN  /\ NewErrors[k].symbol = row.symbol
                    /\ IF row.factors = <<>> THEN NewErrors[k].rule = NoRule
                       ELSE TagsWeakest(NewErrors[k], row) ]_vars

C8_Witness ==
  /\ \E i \in DOMAIN paperTrades :
       /\ paperTrades[i].status = "closed"
       /\ paperTrades[i].returnPct = Rat(-5, 100)
  /\ \E k \in DOMAIN researchErrors : researchErrors[k].rule = "weak_technicals"
  /\ Len(researchErrors)
       < Cardinality({i \in DOMAIN paperTrades : paperTrades[i].status = "closed"})

\* ------------------------------------------------------------------------
\* The weight functions on their own (SpecWeights)
\* ------------------------------------------------------------------------
\* getRiskDefaults("conservative").weights
ConservativeWeights ==
  [k \in WeightKeySet |->
     CASE k = "fundamentals" -> Rat(35, 100)
       [] k = "technicals" -> Rat(15, 100)
       [] k = "macro" -> Rat(20, 100)
       [] k = "sentiment" -> Rat(10, 100)
       [] k = "quality" -> Rat(10, 100)
       [] k = "valuation" -> Rat(10, 100)]

\* getRiskDefaults("aggressive").weights
AggressiveWeights ==
  [k \in WeightKeySet |->
     CASE k = "fundamentals" -> Rat(25, 100)
       [] k = "technicals" -> Rat(30, 100)
       [] k = "macro" -> Rat(15, 100)
       [] k = "sentiment" -> Rat(15, 100)
       [] k = "quality" -> Rat(5, 100)
       [] k = "valuation" -> Rat(10, 100)]

\* Weight vectors parseWeights can install (any finite numbers): the three
\* defaults, the vectors with at most two keys at 1/2 and the others at 0,
\* the unit vectors, and the vectors holding -1/10 on technicals and +1/10
\* on one key.
WeightInputs ==
  {BalancedWeights, ConservativeWeights, AggressiveWeights}
  \cup {[k \in WeightKeySet |-> IF k \in {a, b} THEN Rat(1, 2) ELSE RZero] :
        a \in WeightKeySet, b \in WeightKeySet}
  \cup {[k \in WeightKeySet |-> RZero]}
  \cup {[k \in WeightKeySet |-> IF k = a THEN ROne ELSE RZero] : a \in WeightKeySet}
  \cup {[k \in WeightKeySet |->
           IF k = "technicals" THEN Rat(-1, 10)
           ELSE IF k = b THEN Rat(1, 10) ELSE RZero] : b \in WeightKeySet}

FMacroOnly == <<Score("macro", 10)>>
FWinMix == <<Score("technicals", 6), Score("macro", 10)>>
FLoseMix == <<Score("technicals", 5), Score("macro", 0)>>

\* closed trades given to updateWeightsFromClosures: a return and the entry
\* snapshot of factors
Closed(ret, factors) == [returnPct |-> ret, factors |-> factors]

FeedbackKinds ==
  { Closed(RZero, FHigh), Closed(RZero, FLow), Closed(RZero, FWinMix),
    Closed(Rat(-1, 10), FLow), Closed(Rat(-1, 10), FLoseMix),
    Closed(Rat(-1, 10), FMacroOnly) }

\* two winners with technicals 0.8 and 0.6, two losers with 0.2 and 0.4
FeedbackExample ==
  <<Closed(Rat(1, 10), <<Score("technicals", 8), Score("macro", 5)>>),
    Closed(Rat(1, 10), <<Score("technicals", 6), Score("macro", 5)>>),
    Closed(Rat(-1, 10), <<Score("technicals", 2), Score("macro", 5)>>),
    Closed(Rat(-1, 10), <<Score("technicals", 4), Score("macro", 5)>>)>>

FeedbackLengths == {2, 3}

FeedbackCases ==
  {FeedbackExample}
  \cup UNION {[1..n -> FeedbackKinds] : n \in FeedbackLengths}

InitWeights ==
  /\ wIn \in WeightInputs
  /\ wRegime = "neutral" /\ wResult = NoWeights
  /\ fbClosures = <<>> /\ fbTrades = <<>> /\ fbResult = NoWeights
  /\ InitCycle
  /\ IdleAnalysis

\* the vector drawn by InitWeights has not been given to a function yet
NotCalled == wResult = NoWeights /\ fbClosures = <<>>

\* a call of adjustWeightsForRegime
Adjust ==
  /\ NotCalled
  /\ \E regime \in Regimes :
       /\ wRegime' = regime
       /\ wResult' = adjustWeightsForRegime(wIn, regime)
  /\ fbClosures' = <<>> /\ fbTrades' = <<>> /\ fbResult' = NoWeights
  /\ UNCHANGED <<wIn, cycleVars, analysisVars>>

\* a call of updateWeightsFromClosures
Feedback ==
  /\ NotCalled
  /\ \E case \in FeedbackCases :
       LET closures == [i \in DOMAIN case |->
                          [id |-> i, returnPct |-> case[i].returnPct]]
           trades == [i \in DOMAIN case |->
                        [id |-> i, factors |-> FactorsFrom(case[i].factors, <<>>)]]
       IN  /\ fbClosures' = closures
           /\ fbTrades' = trades
           /\ fbResult' = updateWeightsFromClosures(closures, trades, wIn)
  /\ wRegime' = "neutral" /\ wResult' = NoWeights
  /\ UNCHANGED <<wIn, cycleVars, analysisVars>>

NextWeights == Adjust \/ Feedback

SpecWeights == InitWeights /\ [][NextWeights]_vars

\* the sum of the six weights
TotalOf(w) ==
  RAdd(w["fundamentals"], RAdd(w["technicals"], RAdd(w["macro"],
    RAdd(w["sentiment"], RAdd(w["quality"], w["valuation"])))))

\* closures of the feedback call on the winning (return >= 0) or losing
\* (return < 0) side whose trade's snapshot holds factor `key`
GroupOf(key, win) ==
  {i \in DOMAIN fbClosures :
     /\ (fbClosures[i].returnPct.n >= 0) = win
     /\ \E j \in DOMAIN fbTrades[i].factors : fbTrades[i].factors[j].name = key}

ValueIn(i, key) ==
  fbTrades[i].factors[CHOOSE j \in DOMAIN fbTrades[i].factors :
                        fbTrades[i].factors[j].name = key].score

RECURSIVE SumIn(_, _)
SumIn(S, key) ==
  IF S = {} THEN RZero
  ELSE LET i == CHOOSE x \in S : TRUE
       IN  RAdd(ValueIn(i, key), SumIn(S \ {i}, key))

MeanIn(key, win) ==
  RDiv(SumIn(GroupOf(key, win), key), Rat(Cardinality(GroupOf(key, win)), 1))

BothGroups(key) == GroupOf(key, TRUE) # {} /\ GroupOf(key, FALSE) # {}

\* winner mean minus loser mean of a factor with both groups non-empty
Spread(key) == RSub(MeanIn(key, TRUE), MeanIn(key, FALSE))

\* the weight of `key` before renormalization, as the claim states it
Shifted(key) ==
  IF BothGroups(key)
  THEN RAdd(wIn[key], RMul(Rat(5, 100), Spread(key)))
  ELSE wIn[key]

ShiftedTotal == TotalOf([k \in WeightKeySet |-> Shifted(k)])

\* C5 (as claimed): every vector returned by adjustWeightsForRegime and by
\* updateWeightsFromClosures sums to 1.
C5_SumsToOne ==
  /\ wResult # NoWeights => TotalOf(wResult) = ROne
  /\ fbResult # NoWeights => TotalOf(fbResult) = ROne

\* C5 (amended): the returned vector sums to 1 whenever the weights before
\* the division do not sum to 0 (for adjustWeightsForRegime: whenever the
\* input does not sum to 0, the regime deltas cancelling out); when they sum
\* to 0 the code divides by 1 and the returned vector sums to 0.
C5_SumsToOneUnlessZero ==
  /\ wResult # NoWeights =>
       IF TotalOf(wIn) # RZero THEN TotalOf(wResult) = ROne
       ELSE TotalOf(wResult) = RZero
  /\ fbResult # NoWeights =>
       IF ShiftedTotal # RZero THEN TotalOf(fbResult) = ROne
       ELSE TotalOf(fbResult) = RZero

C5_Witness ==
  /\ wRegime = "high_vol"
  /\ wIn = BalancedWeights
  /\ wResult # wIn
  /\ TotalOf(wResult) = ROne

\* C7 (as claimed, already for the three default weight vectors): a factor
\* whose winner mean exceeds its loser mean ends, after renormalization,
\* strictly above its prior weight.
C7_WinningFactorGains ==
  ( /\ fbResult # NoWeights
    /\ wIn \in {BalancedWeights, ConservativeWeights, AggressiveWeights} ) =>
    \A k \in WeightKeySet :
      (BothGroups(k) /\ RLt(RZero, Spread(k))) => RLt(wIn[k], fbResult[k])

\* no other factor is shifted by the feedback call
OnlyShifted(k) ==
  \A j \in WeightKeySet \ {k} : ~BothGroups(j) \/ Spread(j) = RZero

\* C7 (amended): winners are the closures with return >= 0, losers the ones
\* below 0; before renormalization a factor with both groups gets
\* weight + 0.05 * (winnerMean - loserMean), which is above its prior weight
\* when the winner mean is the larger, a factor with an empty group keeps its
\* weight, and the result is that vector divided by its sum; after
\* renormalization the factor is strictly above its prior weight when it is
\* the only factor shifted, the prior vector sums to 1 and its prior weight
\* is below 1.
C7_FeedbackUpdate ==
  fbResult # NoWeights =>
    \A k \in WeightKeySet :
      /\ RMul(fbResult[k], IF ShiftedTotal = RZero THEN ROne ELSE ShiftedTotal)
           = Shifted(k)
      /\ (BothGroups(k) /\ RLt(RZero, Spread(k))) => RLt(wIn[k], Shifted(k))
      /\ ~BothGroups(k) => Shifted(k) = wIn[k]
      /\ ( /\ BothGroups(k) /\ RLt(RZero, Spread(k))
           /\ OnlyShifted(k)
           /\ TotalOf(wIn) = ROne
           /\ RLt(wIn[k], ROne) ) => RLt(wIn[k], fbResult[k])

C7_Witness ==
  /\ wIn = BalancedWeights
  /\ Len(fbClosures) = 4
  /\ MeanIn("technicals", TRUE) = Rat(7, 10)
  /\ MeanIn("technicals", FALSE) = Rat(3, 10)
  /\ fbResult # NoWeights
  /\ RLt(wIn["technicals"], fbResult["technicals"])
  /\ TotalOf(fbResult) = ROne

\* every weight of the vector is at least 0
NonNegative(w) == \A k \in WeightKeySet : RLe(RZero, w[k])

\* C26: a feedback update of a non-negative base vector, with factor snapshot
\* values in [0,1], returns a vector whose weights are all in [0,1].
C26_WeightsStayNonNegative ==
  (fbResult # NoWeights /\ NonNegative(wIn)) =>
    \A k \in WeightKeySet : RLe(RZero, fbResult[k]) /\ RLe(fbResult[k], ROne)

\* ------------------------------------------------------------------------
\* buildResearchAnalysis: the exclusion filter and the ranking
\* ------------------------------------------------------------------------
RMax(a, b) == IF RLt(a, b) THEN b ELSE a
RMin(a, b) == IF RLt(b, a) THEN b ELSE a
clamp(value, lo, hi) == RMin(hi, RMax(lo, value))

\* an undefined or null string field
NullStr == "<null>"

\* the risk_on and risk_off rules tried before the volatility rule
detectRegime_RiskFirst(macro) ==
  LET vix == IF macro.vix = NullRat THEN RZero ELSE macro.vix
      riskOn == IF macro.riskOnScore = NullRat THEN Rat(1, 2) ELSE macro.riskOnScore
      trend == IF macro.marketTrend = NullStr THEN "flat" ELSE macro.marketTrend
  IN  IF RLe(Rat(6, 10), riskOn) /\ trend = "up" THEN "risk_on"
      ELSE IF RLe(riskOn, Rat(4, 10)) /\ trend = "down" THEN "risk_off"
      ELSE IF RLe(Rat(25, 1), vix) THEN "high_vol"
      ELSE "neutral"

\* macro.vix ?? 0, macro.riskOnScore ?? 0.5, macro.marketTrend ?? "flat"
detectRegime(macro) ==
  LET vix == IF macro.vix = NullRat THEN RZero ELSE macro.vix
      riskOn == IF macro.riskOnScore = NullRat THEN Rat(1, 2) ELSE macro.riskOnScore
      trend == IF macro.marketTrend = NullStr THEN "flat" ELSE macro.marketTrend
  IN  IF RLe(Rat(25, 1), vix) THEN "high_vol"
      ELSE IF RLe(Rat(6, 10), riskOn) /\ trend = "up" THEN "risk_on"
      ELSE IF RLe(riskOn, Rat(4, 10)) /\ trend = "down" THEN "risk_off"
      ELSE "neutral"

\* a record that is undefined (researchData.fundamentals[symbol] without entry)
Undefined == [undefined |-> TRUE]

\* rec?.field
Field(rec, name) == IF rec = Undefined THEN NullRat ELSE rec[name]

RAbs(a) == IF RLt(a, RZero) THEN RSub(RZero, a) ELSE a

normalize(value, lo, hi) ==
  IF value = NullRat THEN Rat(1, 2)
  ELSE IF hi = lo THEN Rat(1, 2)
  ELSE clamp(RDiv(RSub(value, lo), RSub(hi, lo)), RZero, ROne)

\* a calendar date that is missing or does not parse
NoDate == -1

\* Math.pow(0.5, x), for the whole exponents the inputs lead to
HalfPower(x) == CASE x.d = 1 /\ x.n >= 0 -> Rat(1, 2 ^ x.n)

\* dates and the clock count days
decayWeight(publishedAt, halfLifeDays, clock) ==
  IF publishedAt = NoDate THEN RZero
  ELSE LET ageDays == Rat(clock - publishedAt, 1)
       IN  IF RLt(ageDays, RZero) THEN ROne
           ELSE HalfPower(RDiv(ageDays, RMax(ROne, halfLifeDays)))

RECURSIVE FiniteOnes(_)
FiniteOnes(values) ==
  IF values = <<>> THEN <<>>
  ELSE IF values[1] = NullRat THEN FiniteOnes(Tail(values))
       ELSE <<values[1]>> \o FiniteOnes(Tail(values))

\* average of the scorers: 0.5 for an empty list
scoreAverage(values) ==
  LET list == FiniteOnes(values)
  IN  IF list = <<>> THEN Rat(1, 2)
      ELSE RDiv(RSumSeq(list), Rat(Len(list), 1))

RECURSIVE PositiveWeights(_)
PositiveWeights(items) ==
  IF items = <<>> THEN <<>>
  ELSE IF RLt(RZero, items[1].weight)
       THEN <<items[1]>> \o PositiveWeights(Tail(items))
       ELSE PositiveWeights(Tail(items))

weightedAverage(items) ==
  LET filtered == PositiveWeights(items)
      totalWeight == RSumSeq([i \in DOMAIN filtered |-> filtered[i].weight])
  IN  IF filtered = <<>> THEN Rat(1, 2)
      ELSE IF totalWeight = RZero THEN Rat(1, 2)
      ELSE RDiv(RSumSeq([i \in DOMAIN filtered |->
                           RMul(filtered[i].value, filtered[i].weight)]),
                totalWeight)

scorePositive(value, mid, high) ==
  IF value = NullRat THEN Rat(1, 2)
  ELSE IF RLe(value, RZero) THEN Rat(2, 10)
  ELSE IF RLe(high, value) THEN ROne
  ELSE IF RLe(value, mid) THEN Rat(6, 10)
  ELSE normalize(value, mid, high)

scoreInverse(value, good, bad) ==
  IF value = NullRat THEN Rat(1, 2)
  ELSE IF RLe(value, good) THEN ROne
  ELSE IF RLe(bad, value) THEN Rat(2, 10)
  ELSE clamp(RSub(ROne, RDiv(RSub(value, good), RSub(bad, good))), RZero, ROne)

computeFundamentalScore(f) ==
  IF f = Undefined THEN Rat(1, 2)
  ELSE LET growth ==
             scoreAverage(<<scorePositive(f.revenueGrowth, Rat(5, 100), Rat(15, 100)),
                            scorePositive(f.epsGrowth, Rat(5, 100), Rat(2, 10))>>)
           profitability ==
             scoreAverage(<<scorePositive(f.operatingMargin, Rat(1, 10), Rat(25, 100)),
                            scorePositive(f.netMargin, Rat(5, 100), Rat(2, 10))>>)
           leverage == scoreInverse(f.debtToEquity, ROne, Rat(3, 1))
       IN  scoreAverage(<<growth, profitability, leverage>>)

computeQualityScore(f) ==
  IF f = Undefined THEN Rat(1, 2)
  ELSE scoreAverage(<<scorePositive(f.roic, Rat(1, 10), Rat(2, 10)),
                      scorePositive(f.roe, Rat(1, 10), Rat(25, 100)),
                      scorePositive(f.fcfYield, Rat(3, 100), Rat(8, 100))>>)

computeValuationScore(f) ==
  IF f = Undefined THEN Rat(1, 2)
  ELSE scoreAverage(<<scoreInverse(f.pe, Rat(15, 1), Rat(40, 1)),
                      scoreInverse(f.ps, Rat(3, 1), Rat(10, 1)),
                      scoreInverse(f.evEbitda, Rat(10, 1), Rat(25, 1))>>)

\* s?.dailyBar?.c ?? s?.latestTrade?.p
SnapshotPrice(s) ==
  IF s = Undefined THEN NullRat
  ELSE IF s.bar # NullRat THEN s.bar ELSE s.trade

computeTechnicalScore(t, s) ==
  IF t = Undefined /\ s = Undefined THEN Rat(1, 2)
  ELSE LET rsi == Field(t, "rsi")
           sma200 == Field(t, "sma200")
           rsiScore ==
             IF rsi # NullRat
             THEN clamp(RSub(ROne, RDiv(RAbs(RSub(rsi, Rat(50, 1))), Rat(50, 1))),
                        RZero, ROne)
             ELSE Rat(1, 2)
           momentum ==
             scoreAverage(
               <<scorePositive(Field(t, "momentum1m"), Rat(2, 100), Rat(8, 100)),
                 scorePositive(Field(t, "momentum3m"), Rat(4, 100), Rat(15, 100)),
                 scorePositive(Field(t, "momentum6m"), Rat(6, 100), Rat(2, 10))>>)
           price == SnapshotPrice(s)
           trendScore ==
             IF price # NullRat /\ sma200 # NullRat
             THEN clamp(RAdd(RDiv(RSub(price, sma200), RMax(ROne, sma200)),
                             Rat(1, 2)), RZero, ROne)
             ELSE Rat(1, 2)
       IN  scoreAverage(<<rsiScore, momentum, trendScore>>)

\* n.sentiment ?? 0, e.tone ?? 0, n.importance ?? 1
OrElse(value, default) == IF value = NullRat THEN default ELSE value

computeSentimentScore(news, earnings, insider, institutional, halfLifeDays, clock) ==
  LET newsScore ==
        weightedAverage(
          [i \in DOMAIN news |->
             [value |-> normalize(RAdd(OrElse(news[i].sentiment, RZero), ROne),
                                  RZero, Rat(2, 1)),
              weight |-> RMul(OrElse(news[i].importance, ROne),
                              decayWeight(news[i].publishedAt, halfLifeDays,
                                          clock))]])
      earningsScore ==
        weightedAverage(
          [i \in DOMAIN earnings |->
             [value |-> normalize(RAdd(OrElse(earnings[i].tone, RZero), ROne),
                                  RZero, Rat(2, 1)),
              weight |-> decayWeight(earnings[i].publishedAt, halfLifeDays,
                                     clock)]])
      insiderScore ==
        IF Field(insider, "netValue") # NullRat
        THEN normalize(insider.netValue, Rat(-1000000, 1), Rat(1000000, 1))
        ELSE Rat(1, 2)
      institutionalScore ==
        IF Field(institutional, "netValue") # NullRat
        THEN normalize(institutional.netValue, Rat(-5000000, 1), Rat(5000000, 1))
        ELSE Rat(1, 2)
  IN  scoreAverage(<<newsScore, earningsScore, insiderScore, institutionalScore>>)

\* the branch of computeMacroScore taken for a regime
MacroByRegime(base, regime) ==
  IF regime = "high_vol" THEN RMul(base, Rat(8, 10))
  ELSE IF regime = "risk_on" THEN clamp(RAdd(base, Rat(1, 10)), RZero, ROne)
  ELSE IF regime = "risk_off" THEN clamp(RSub(base, Rat(1, 10)), RZero, ROne)
  ELSE base

computeMacroScore(macro, regime) ==
  LET riskOn == OrElse(macro.riskOnScore, Rat(1, 2))
      trendScore == IF macro.marketTrend = "up" THEN Rat(7, 10)
                    ELSE IF macro.marketTrend = "down" THEN Rat(3, 10)
                    ELSE Rat(1, 2)
      vixPenalty ==
        IF macro.vix # NullRat
        THEN clamp(RSub(ROne, RDiv(RSub(macro.vix, Rat(15, 1)), Rat(20, 1))),
                   RZero, ROne)
        ELSE Rat(1, 2)
      base == scoreAverage(<<riskOn, trendScore, vixPenalty>>)
  IN  MacroByRegime(base, regime)

compareToMedian(value, medianValue) ==
  LET diff == RSub(value, medianValue)
      scale == RMax(Rat(1, 10000), RAbs(medianValue))
  IN  clamp(RAdd(Rat(1, 2), RDiv(diff, RMul(Rat(2, 1), scale))), RZero, ROne)

\* peerMedians[sector] ?? {}
NoMedians ==
  [revenueGrowth |-> NullRat, netMargin |-> NullRat, pe |-> NullRat,
   fcfYield |-> NullRat]

computePeerScore(f, peerMedians) ==
  IF f = Undefined THEN Rat(1, 2)
  ELSE LET scores ==
             (IF f.revenueGrowth # NullRat /\ peerMedians.revenueGrowth # NullRat
              THEN <<compareToMedian(f.revenueGrowth, peerMedians.revenueGrowth)>>
              ELSE <<>>)
          \o (IF f.netMargin # NullRat /\ peerMedians.netMargin # NullRat
              THEN <<compareToMedian(f.netMargin, peerMedians.netMargin)>>
              ELSE <<>>)
          \o (IF f.pe # NullRat /\ peerMedians.pe # NullRat
              THEN <<compareToMedian(peerMedians.pe, f.pe)>>
              ELSE <<>>)
          \o (IF f.fcfYield # NullRat /\ peerMedians.fcfYield # NullRat
              THEN <<compareToMedian(f.fcfYield, peerMedians.fcfYield)>>
              ELSE <<>>)
       IN  IF Len(scores) > 0 THEN scoreAverage(scores) ELSE Rat(1, 2)

\* the keys of factorScores
FactorKeys == WeightKeySet \cup {"peer"}

\* the seven factor scores buildResearchAnalysis computes for one symbol
FactorScores(macro, regime, d) ==
  [k \in FactorKeys |->
     CASE k = "fundamentals" -> computeFundamentalScore(d.f)
       [] k = "technicals" -> computeTechnicalScore(d.t, d.snapshot)
       [] k = "macro" -> computeMacroScore(macro, regime)
       [] k = "sentiment" ->
            computeSentimentScore(d.news, d.earnings, d.insider, d.institutional,
                                  d.halfLifeDays, d.clock)
       [] k = "quality" -> computeQualityScore(d.f)
       [] k = "valuation" -> computeValuationScore(d.f)
       [] k = "peer" -> computePeerScore(d.f, d.peerMedians)]

\* f?.sector ?? "unknown" and f?.industry ?? "unknown"
LabelOf(fundamentals, symbol, field) ==
  IF symbol \in DOMAIN fundamentals /\ fundamentals[symbol][field] # NullStr
  THEN fundamentals[symbol][field]
  ELSE "unknown"

\* Number.isFinite(Number.parseFloat(p.marketValue))
IsFiniteValue(p) == p.marketValue # NullRat

\* the sum of the finite market values of the positions labelled `label`
RECURSIVE LabelTotal(_, _, _, _)
LabelTotal(positions, fundamentals, field, label) ==
  IF positions = <<>> THEN RZero
  ELSE LET p == positions[1]
           rest == LabelTotal(Tail(positions), fundamentals, field, label)
       IN  IF IsFiniteValue(p) /\ LabelOf(fundamentals, p.symbol, field) = label
           THEN RAdd(p.marketValue, rest)
           ELSE rest

RECURSIVE PositionsTotal(_)
PositionsTotal(positions) ==
  IF positions = <<>> THEN RZero
  ELSE IF IsFiniteValue(positions[1])
       THEN RAdd(positions[1].marketValue, PositionsTotal(Tail(positions)))
       ELSE PositionsTotal(Tail(positions))

LabelsSeen(positions, fundamentals, field) ==
  {LabelOf(fundamentals, positions[i].symbol, field) :
     i \in {j \in DOMAIN positions : IsFiniteValue(positions[j])}}

\* { sectorTotals, industryTotals, total: total || 1 }
sectorIndustryWeights(positions, fundamentals) ==
  [sectorTotals |->
     [l \in LabelsSeen(positions, fundamentals, "sector") |->
        LabelTotal(positions, fundamentals, "sector", l)],
   industryTotals |->
     [l \in LabelsSeen(positions, fundamentals, "industry") |->
        LabelTotal(positions, fundamentals, "industry", l)],
   total |-> IF PositionsTotal(positions) = RZero THEN ROne
             ELSE PositionsTotal(positions)]

\* the share a label would have once an order of 100 dollars is added to it
ShareOf_PostInclusion(totals, label, total) ==
  RDiv(RAdd(IF label \in DOMAIN totals THEN totals[label] ELSE RZero, Rat(100, 1)),
       RAdd(total, Rat(100, 1)))

\* (totals.get(label) ?? 0) / total
ShareOf(totals, label, total) ==
  RDiv(IF label \in DOMAIN totals THEN totals[label] ELSE RZero, total)

OverCap_AtLeast(weight, cap) == RLe(cap, weight)

\* sectorWeight > sectorCap, industryWeight > industryCap
OverCap(weight, cap) == RLt(cap, weight)

buildRedFlags(constraints, data, symbol) ==
  LET hasF == symbol \in DOMAIN data.fundamentals
      hasT == symbol \in DOMAIN data.technicals
      hasL == symbol \in DOMAIN data.liquidity
      hasR == symbol \in DOMAIN data.risk
  IN  (IF /\ RLt(RZero, constraints.minMarketCap)
          /\ hasF /\ data.fundamentals[symbol].marketCap # NullRat
          /\ RLt(data.fundamentals[symbol].marketCap, constraints.minMarketCap)
       THEN <<"market cap below minimum">> ELSE <<>>)
   \o (IF /\ RLt(RZero, constraints.minDollarVolume)
          /\ hasL /\ data.liquidity[symbol].avgDollarVolume # NullRat
          /\ RLt(data.liquidity[symbol].avgDollarVolume, constraints.minDollarVolume)
       THEN <<"dollar volume below minimum">> ELSE <<>>)
   \o (IF /\ RLt(RZero, constraints.maxDrawdown)
          /\ hasT /\ data.technicals[symbol].maxDrawdown # NullRat
          /\ RLt(constraints.maxDrawdown, data.technicals[symbol].maxDrawdown)
       THEN <<"drawdown exceeds max">> ELSE <<>>)
   \o (IF hasR /\ data.risk[symbol].legalIssues THEN <<"legal issues">> ELSE <<>>)
   \o (IF hasR /\ data.risk[symbol].accountingAnomaly
       THEN <<"accounting anomaly">> ELSE <<>>)
   \o (IF hasR /\ data.risk[symbol].regulatoryOverhang
       THEN <<"regulatory overhang">> ELSE <<>>)
   \o (IF hasR /\ data.risk[symbol].highShortInterest
       THEN <<"high short interest">> ELSE <<>>)

\* only the first red flag becomes a reason
RedFlagReasons_First(flags) ==
  IF flags = <<>> THEN <<>> ELSE <<"red flag: " \o flags[1]>>

\* `red flag: ${r}`
RedFlagReasons(flags) == [i \in DOMAIN flags |-> "red flag: " \o flags[i]]

exclusionReasons(symbol, constraints, data, totals) ==
  LET sector == LabelOf(data.fundamentals, symbol, "sector")
      industry == LabelOf(data.fundamentals, symbol, "industry")
  IN  (IF symbol \in constraints.excludeSymbols
       THEN <<"excluded symbol">> ELSE <<>>)
   \o (IF sector \in constraints.excludeSectors
       THEN <<"excluded sector">> ELSE <<>>)
   \o (IF industry \in constraints.excludeIndustries
       THEN <<"excluded industry">> ELSE <<>>)
   \o RedFlagReasons(buildRedFlags(constraints, data, symbol))
   \o (IF /\ symbol \in DOMAIN data.technicals
          /\ data.technicals[symbol].correlationWithPortfolio # NullRat
          /\ RLt(constraints.maxCorrelation,
                 data.technicals[symbol].correlationWithPortfolio)
       THEN <<"correlation above max">> ELSE <<>>)
   \o (IF OverCap(ShareOf(totals.sectorTotals, sector, totals.total),
                  constraints.sectorCap)
       THEN <<"sector cap exceeded">> ELSE <<>>)
   \o (IF OverCap(ShareOf(totals.industryTotals, industry, totals.total),
                  constraints.industryCap)
       THEN <<"industry cap exceeded">> ELSE <<>>)

\* the seven factor scores of a symbol times the effective weights
weightedScore(scores, w) ==
  RAdd(RMul(scores["fundamentals"], w["fundamentals"]),
  RAdd(RMul(scores["technicals"], w["technicals"]),
  RAdd(RMul(scores["macro"], w["macro"]),
  RAdd(RMul(scores["sentiment"], w["sentiment"]),
  RAdd(RMul(scores["quality"], w["quality"]),
  RAdd(RMul(scores["valuation"], w["valuation"]),
       RMul(scores["peer"], Rat(5, 100))))))))

\* researchData.fundamentals[symbol] and the like
EntryOf(table, symbol) ==
  IF symbol \in DOMAIN table THEN table[symbol] ELSE Undefined

\* news ?? [], earnings ?? []
ItemsOf(table, symbol) ==
  IF symbol \in DOMAIN table THEN table[symbol] ELSE <<>>

RECURSIVE InsertRat(_, _)
InsertRat(sorted, x) ==
  IF sorted = <<>> THEN <<x>>
  ELSE IF RLt(x, sorted[1]) THEN <<x>> \o sorted
       ELSE <<sorted[1]>> \o InsertRat(Tail(sorted), x)

RECURSIVE SortRats(_)
SortRats(values) ==
  IF values = <<>> THEN <<>>
  ELSE InsertRat(SortRats(Tail(values)), values[1])

\* undefined for an empty list
median(values) ==
  IF values = <<>> THEN NullRat
  ELSE LET sorted == SortRats(values)
           mid == (Len(sorted) \div 2) + 1
       IN  IF Len(sorted) % 2 = 0
           THEN RDiv(RAdd(sorted[mid - 1], sorted[mid]), Rat(2, 1))
           ELSE sorted[mid]

\* the values of `field` among the fundamentals of the symbols of a sector
RECURSIVE PeerValues(_, _, _, _)
PeerValues(symbols, fundamentals, sector, field) ==
  IF symbols = <<>> THEN <<>>
  ELSE LET rest == PeerValues(Tail(symbols), fundamentals, sector, field)
           symbol == symbols[1]
       IN  IF /\ symbol \in DOMAIN fundamentals
              /\ LabelOf(fundamentals, symbol, "sector") = sector
              /\ fundamentals[symbol][field] # NullRat
           THEN <<fundamentals[symbol][field]>> \o rest
           ELSE rest

computePeerMedians(symbols, fundamentals) ==
  [sector \in {LabelOf(fundamentals, symbols[i], "sector") :
                 i \in {j \in DOMAIN symbols : symbols[j] \in DOMAIN fundamentals}} |->
     [field \in {"revenueGrowth", "netMargin", "pe", "fcfYield"} |->
        median(PeerValues(symbols, fundamentals, sector, field))]]

\* clamp(present / total, 0.2, 1) over f, t, news, earnings, insider,
\* institutional, liquidity, risk
computeDataQuality(data, symbol) ==
  LET parts == <<data.fundamentals, data.technicals, data.news, data.earnings,
                 data.insider, data.institutional, data.liquidity, data.risk>>
      present == Cardinality({i \in DOMAIN parts : symbol \in DOMAIN parts[i]})
  IN  clamp(Rat(present, Len(parts)), Rat(2, 10), ROne)

\* the factor scores of the loop body
SymbolScores(symbol, config, data, regime, snaps, medians, clock) ==
  LET f == EntryOf(data.fundamentals, symbol)
      sector == LabelOf(data.fundamentals, symbol, "sector")
  IN  FactorScores(data.macro, regime,
        [f |-> f,
         t |-> EntryOf(data.technicals, symbol),
         snapshot |-> EntryOf(snaps, symbol),
         news |-> ItemsOf(data.news, symbol),
         earnings |-> ItemsOf(data.earnings, symbol),
         insider |-> EntryOf(data.insider, symbol),
         institutional |-> EntryOf(data.institutional, symbol),
         peerMedians |-> IF sector \in DOMAIN medians THEN medians[sector]
                         ELSE NoMedians,
         halfLifeDays |-> config.recencyHalfLifeDays,
         clock |-> clock])

Continues_Never(reasons) == FALSE

\* if (exclusionReasons.length > 0) { excluded.push(...); continue; }
Continues(reasons) == Len(reasons) > 0

\* one iteration of the loop over symbols
AnalyzeSymbol(acc, symbol, config, data, totals, w, regime, snaps, medians, clock) ==
  LET reasons == exclusionReasons(symbol, config, data, totals)
      sector == LabelOf(data.fundamentals, symbol, "sector")
      industry == LabelOf(data.fundamentals, symbol, "industry")
      factorScores ==
        SymbolScores(symbol, config, data, regime, snaps, medians, clock)
      composite == weightedScore(factorScores, w)
      dataQuality == computeDataQuality(data, symbol)
      confidence ==
        clamp(RAdd(RMul(composite, Rat(7, 10)), RMul(dataQuality, Rat(3, 10))),
              RZero, ROne)
      \* dataQualitySum += dataQuality, ahead of the exclusion test
      summed == [acc EXCEPT !.dataQualitySum = RAdd(@, dataQuality)]
      afterExcluded ==
        IF Len(reasons) > 0
        THEN [summed EXCEPT !.excluded =
                Append(@, [symbol |-> symbol, reasons |-> reasons,
                           sector |-> sector, industry |-> industry])]
        ELSE summed
  IN  IF Continues(reasons) THEN afterExcluded
      ELSE [afterExcluded EXCEPT !.candidates =
              Append(@, [symbol |-> symbol, sector |-> sector,
                         industry |-> industry,
                         score |-> clamp(composite, RZero, ROne),
                         confidence |-> confidence,
                         factorScores |-> factorScores,
                         redFlags |-> buildRedFlags(config, data, symbol),
                         dataQuality |-> dataQuality,
                         regime |-> regime])]

RECURSIVE AnalyzeLoop(_, _, _, _, _, _, _, _, _, _)
AnalyzeLoop(acc, symbols, config, data, totals, w, regime, snaps, medians, clock) ==
  IF symbols = <<>> THEN acc
  ELSE AnalyzeLoop(AnalyzeSymbol(acc, symbols[1], config, data, totals, w, regime,
                                 snaps, medians, clock),
                   Tail(symbols), config, data, totals, w, regime, snaps,
                   medians, clock)

\* candidates.sort((a, b) => b.score - a.score), a stable sort
RECURSIVE InsertByScore(_, _)
InsertByScore(sorted, c) ==
  IF sorted = <<>> THEN <<c>>
  ELSE IF RLt(sorted[1].score, c.score) THEN <<c>> \o sorted
       ELSE <<sorted[1]>> \o InsertByScore(Tail(sorted), c)

RECURSIVE SortByScore(_)
SortByScore(cands) ==
  IF cands = <<>> THEN <<>>
  ELSE InsertByScore(SortByScore(SubSeq(cands, 1, Len(cands) - 1)),
                     cands[Len(cands)])

\* candidates.length > 0 ? dataQualitySum / candidates.length : 0.5
overallQuality(dataQualitySum, count) ==
  IF count > 0 THEN RDiv(dataQualitySum, Rat(count, 1)) ELSE Rat(1, 2)

buildResearchAnalysis(symbols, snaps, positions, data, config, clock) ==
  LET regime == detectRegime(data.macro)
      peerMedians == computePeerMedians(symbols, data.fundamentals)
      totals == sectorIndustryWeights(positions, data.fundamentals)
      effectiveWeights == adjustWeightsForRegime(config.weights, regime)
      \* the loop runs once; what it leaves behind is then read several times
      loop == {AnalyzeLoop([candidates |-> <<>>, excluded |-> <<>>,
                            dataQualitySum |-> RZero], symbols,
                           config, data, totals, effectiveWeights, regime,
                           snaps, peerMedians, clock)}
      Returned(out) ==
        [symbols |-> symbols,
         regime |-> regime,
         candidates |-> SortByScore(out.candidates),
         excluded |-> out.excluded,
         weights |-> effectiveWeights,
         dataQuality |-> overallQuality(out.dataQualitySum, Len(out.candidates))]
  IN  CHOOSE analysis \in {Returned(out) : out \in loop} : TRUE

\* --- inputs of the analysis ---
Metrics(revenueGrowth, epsGrowth, operatingMargin, netMargin, debtToEquity, roic, roe, fcfYield, pe, ps, evEbitda) ==
  [revenueGrowth |-> revenueGrowth, epsGrowth |-> epsGrowth,
   operatingMargin |-> operatingMargin, netMargin |-> netMargin,
   debtToEquity |-> debtToEquity, roic |-> roic, roe |-> roe,
   fcfYield |-> fcfYield, pe |-> pe, ps |-> ps, evEbitda |-> evEbitda]

Indicators(rsi, momentum1m, momentum3m, momentum6m, sma200) ==
  [rsi |-> rsi, momentum1m |-> momentum1m, momentum3m |-> momentum3m,
   momentum6m |-> momentum6m, sma200 |-> sma200]

NewsItem(sentiment, importance, publishedAt) ==
  [sentiment |-> sentiment, importance |-> importance,
   publishedAt |-> publishedAt]

EarningsCall(tone, publishedAt) == [tone |-> tone, publishedAt |-> publishedAt]

Flow(netValue) == [netValue |-> netValue]

Medians(revenueGrowth, netMargin, pe, fcfYield) ==
  [revenueGrowth |-> revenueGrowth, netMargin |-> netMargin, pe |-> pe,
   fcfYield |-> fcfYield]

NoMetrics ==
  Metrics(NullRat, NullRat, NullRat, NullRat, NullRat, NullRat, NullRat,
          NullRat, NullRat, NullRat, NullRat)
StrongMetrics ==
  Metrics(Rat(2, 10), Rat(3, 10), Rat(3, 10), Rat(25, 100), Rat(1, 2),
          Rat(25, 100), Rat(3, 10), Rat(1, 10), Rat(12, 1), Rat(2, 1), Rat(8, 1))
WeakMetrics ==
  Metrics(Rat(-1, 10), RZero, Rat(-2, 10), Rat(-5, 100), Rat(5, 1),
          Rat(-1, 10), RZero, Rat(-3, 100), Rat(60, 1), Rat(12, 1), Rat(30, 1))
MidMetrics ==
  Metrics(Rat(1, 10), Rat(1, 10), Rat(15, 100), Rat(1, 10), Rat(2, 1),
          Rat(15, 100), NullRat, Rat(5, 100), Rat(20, 1), Rat(13, 2), NullRat)
OddMetrics ==
  Metrics(Rat(50, 1), Rat(-50, 1), Rat(9, 1), Rat(-9, 1), Rat(-4, 1),
          Rat(7, 1), Rat(-7, 1), Rat(3, 1), Rat(-10, 1), RZero, Rat(1000, 1))

Fund(sector, industry, cap, metrics) ==
  [sector |-> sector, industry |-> industry, marketCap |-> cap] @@ metrics

\* market caps and dollar volumes in billions of dollars
Fundamentals ==
  [s \in {"AAPL", "MSFT", "XOM", "PFE", "TINY"} |->
     CASE s = "AAPL" -> Fund("Technology", "Hardware", Rat(3000, 1), StrongMetrics)
       [] s = "MSFT" -> Fund("Technology", "Software", Rat(3000, 1), MidMetrics)
       [] s = "XOM" -> Fund("Energy", "Oil", Rat(400, 1), WeakMetrics)
       [] s = "PFE" -> Fund("Healthcare", "Pharma", Rat(150, 1), NoMetrics)
       [] s = "TINY" -> Fund(NullStr, "Software", Rat(1, 10), OddMetrics)]

NoEntries == [s \in {} |-> 0]

Macro(vix, riskOn, trend) ==
  [vix |-> vix, riskOnScore |-> riskOn, marketTrend |-> trend]

Risk(legal, shortInterest) ==
  [legalIssues |-> legal, accountingAnomaly |-> FALSE,
   regulatoryOverhang |-> FALSE, highShortInterest |-> shortInterest]

Tech(drawdown, correlation, indicators) ==
  [maxDrawdown |-> drawdown, correlationWithPortfolio |-> correlation]
    @@ indicators

NoIndicators == Indicators(NullRat, NullRat, NullRat, NullRat, NullRat)
StrongIndicators ==
  Indicators(Rat(50, 1), Rat(1, 10), Rat(2, 10), Rat(3, 10), Rat(100, 1))

ResearchData(fundamentals, technicals, news, earnings, insider, institutional, liquidity, risk, macro) ==
  [fundamentals |-> fundamentals, technicals |-> technicals, news |-> news,
   earnings |-> earnings, insider |-> insider, institutional |-> institutional,
   liquidity |-> liquidity, risk |-> risk, macro |-> macro]

ResearchDataSets ==
  { \* fundamentals only, calm market
    ResearchData(Fundamentals, NoEntries, NoEntries, NoEntries, NoEntries,
                 NoEntries, NoEntries, NoEntries, Macro(NullRat, NullRat, NullStr)),
    \* red flags and a correlated symbol, volatile market
    ResearchData(Fundamentals,
                 [s \in {"MSFT", "PFE"} |->
                    IF s = "MSFT" THEN Tech(Rat(1, 10), Rat(9, 10), NoIndicators)
                    ELSE Tech(Rat(6, 10), NullRat, StrongIndicators)],
                 NoEntries, NoEntries, NoEntries, NoEntries,
                 [s \in {"XOM"} |-> [avgDollarVolume |-> Rat(1, 1000)]],
                 [s \in {"XOM", "AAPL"} |->
                    IF s = "XOM" THEN Risk(TRUE, TRUE) ELSE Risk(FALSE, FALSE)],
                 Macro(Rat(30, 1), Rat(7, 10), "up")),
    \* no research data at all, rising market
    ResearchData(NoEntries, NoEntries, NoEntries, NoEntries, NoEntries,
                 NoEntries, NoEntries, NoEntries, Macro(Rat(12, 1), Rat(7, 10), "up")),
    \* news, earnings calls and flows, one news item dated day 70; risk-on
    \* market
    ResearchData(Fundamentals,
                 [s \in {"AAPL", "ZZZ"} |->
                    Tech(Rat(1, 10), Rat(1, 10), StrongIndicators)],
                 [s \in {"AAPL", "MSFT"} |->
                    IF s = "AAPL" THEN <<NewsItem(ROne, Rat(2, 1), 0)>>
                    ELSE <<NewsItem(ROne, NullRat, 70),
                           NewsItem(Rat(-1, 1), NullRat, 0)>>],
                 [s \in {"AAPL", "PFE"} |->
                    IF s = "AAPL" THEN <<EarningsCall(ROne, 0)>>
                    ELSE <<EarningsCall(Rat(1, 2), 0), EarningsCall(NullRat, NoDate)>>],
                 [s \in {"AAPL"} |-> Flow(Rat(2000000, 1))],
                 [s \in {"AAPL", "MSFT"} |->
                    IF s = "AAPL" THEN Flow(Rat(5000000, 1)) ELSE Flow(NullRat)],
                 NoEntries, NoEntries, Macro(Rat(12, 1), ROne, "up")) }

\* snapshots[symbol]: dailyBar.c and latestTrade.p in dollars
SnapshotSets ==
  { NoEntries,
    [s \in {"AAPL", "MSFT", "XOM"} |->
       CASE s = "AAPL" -> [bar |-> Rat(150, 1), trade |-> Rat(151, 1)]
         [] s = "MSFT" -> [bar |-> NullRat, trade |-> Rat(90, 1)]
         [] s = "XOM" -> [bar |-> NullRat, trade |-> NullRat]] }

\* the wall clock of a call, in days
Clocks == {0, 70}

Constraints(xSym, xSec, xInd, sCap, iCap, maxCorr, minCap, minVol, maxDd, w, hl) ==
  [excludeSymbols |-> xSym, excludeSectors |-> xSec, excludeIndustries |-> xInd,
   sectorCap |-> sCap, industryCap |-> iCap, maxCorrelation |-> maxCorr,
   minMarketCap |-> minCap, minDollarVolume |-> minVol, maxDrawdown |-> maxDd,
   weights |-> w, recencyHalfLifeDays |-> hl]

ResearchConfigs ==
  { \* getRiskDefaults("balanced")
    Constraints({}, {}, {}, Rat(35, 100), Rat(25, 100), Rat(65, 100),
                Rat(1, 1), Rat(12, 1000), Rat(4, 10), BalancedWeights, Rat(10, 1)),
    \* sector cap 0.5, the other checks off
    Constraints({}, {}, {}, Rat(1, 2), ROne, ROne,
                RZero, RZero, RZero, BalancedWeights, Rat(10, 1)),
    \* exclusion lists, caps at 0
    Constraints({"AAPL"}, {"Energy"}, {"Pharma"}, RZero, RZero, RZero,
                RZero, RZero, RZero, ConservativeWeights, Rat(14, 1)),
    \* getRiskDefaults("aggressive")
    Constraints({}, {}, {}, Rat(45, 100), Rat(35, 100), Rat(75, 100),
                Rat(1, 2), Rat(8, 1000), Rat(5, 10), AggressiveWeights, Rat(7, 1)) }

Pos(symbol, value) == [symbol |-> symbol, marketValue |-> value]

PositionLists ==
  { <<>>,
    <<Pos("AAPL", Rat(700, 1)), Pos("XOM", Rat(300, 1))>>,
    <<Pos("AAPL", Rat(500, 1)), Pos("XOM", Rat(-500, 1))>>,
    <<Pos("AAPL", Rat(300, 1)), Pos("XOM", Rat(-700, 1))>>,
    <<Pos("ZZZ", Rat(100, 1)), Pos("PFE", NullRat)>> }

SymbolLists ==
  { <<>>,
    <<"MSFT", "PFE">>,
    <<"AAPL", "MSFT", "XOM", "PFE", "ZZZ">>,
    <<"MSFT", "ZZZ", "MSFT">>,
    <<"TINY", "XOM", "AAPL">>,
    <<"PFE", "ZZZ", "TINY">> }

NoAnalysis ==
  [symbols |-> <<>>, regime |-> "none", candidates |-> <<>>,
   excluded |-> <<>>, weights |-> NoWeights]

InitAnalysis ==
  /\ aConfig \in ResearchConfigs
  /\ aData \in ResearchDataSets
  /\ aPositions \in PositionLists
  /\ aSnapshots \in SnapshotSets
  /\ aResult = NoAnalysis
  /\ aClock = 0
  /\ aAgain = NoAnalysis
  /\ sIn = <<>> /\ sOut = <<>>
  /\ IdleCalls
  /\ InitCycle
  /\ IdleWeights

\* a call of buildResearchAnalysis
Analyze ==
  /\ aResult = NoAnalysis
  /\ \E symbols \in SymbolLists, clock \in Clocks :
       /\ aResult' = buildResearchAnalysis(symbols, aSnapshots, aPositions, aData,
                                           aConfig, clock)
       /\ aClock' = clock
  /\ UNCHANGED <<aConfig, aData, aPositions, aSnapshots, aAgain, sIn, sOut,
                 callVars, cycleVars, weightVars>>

\* a second call with the same arguments, at the same time or later
AnalyzeAgain ==
  /\ aResult # NoAnalysis
  /\ aAgain = NoAnalysis
  /\ \E clock \in {c \in Clocks : c >= aClock} :
       /\ aAgain' = buildResearchAnalysis(aResult.symbols, aSnapshots, aPositions,
                                          aData, aConfig, clock)
       /\ aClock' = clock
  /\ UNCHANGED <<aConfig, aData, aPositions, aSnapshots, aResult, sIn, sOut,
                 callVars, cycleVars, weightVars>>

NextAnalysis == Analyze \/ AnalyzeAgain

SpecAnalysis == InitAnalysis /\ [][NextAnalysis]_vars

Analyzed == aResult.regime # "none"

CandidateSymbols == {aResult.candidates[i].symbol : i \in DOMAIN aResult.candidates}
ExcludedSymbols == {aResult.excluded[i].symbol : i \in DOMAIN aResult.excluded}
InputSymbols == {aResult.symbols[i] : i \in DOMAIN aResult.symbols}

\* C9: after a call of buildResearchAnalysis the candidate symbols and the
\* excluded symbols are disjoint and together are exactly the input symbols.
C9_CandidatesExcludedPartition ==
  Analyzed =>
    /\ CandidateSymbols \cap ExcludedSymbols = {}
    /\ CandidateSymbols \cup ExcludedSymbols = InputSymbols

C9_Witness ==
  /\ Analyzed
  /\ Len(aResult.symbols) = 5
  /\ CandidateSymbols # {}
  /\ ExcludedSymbols # {}

\* the sector the filter uses for a symbol
SectorIn(symbol) ==
  IF symbol \in DOMAIN aData.fundamentals
     /\ aData.fundamentals[symbol].sector # NullStr
  THEN aData.fundamentals[symbol].sector
  ELSE "unknown"

\* the positions with a numeric market value, by index
Valued == {i \in DOMAIN aPositions : aPositions[i].marketValue # NullRat}

RECURSIVE ValueOf(_)
ValueOf(S) ==
  IF S = {} THEN RZero
  ELSE LET i == CHOOSE x \in S : TRUE
       IN  RAdd(aPositions[i].marketValue, ValueOf(S \ {i}))

SectorValue(sector) ==
  ValueOf({i \in Valued : SectorIn(aPositions[i].symbol) = sector})

CapReasonFor(symbol) ==
  \E i \in DOMAIN aResult.excluded :
    /\ aResult.excluded[i].symbol = symbol
    /\ \E j \in DOMAIN aResult.excluded[i].reasons :
         aResult.excluded[i].reasons[j] = "sector cap exceeded"

\* C10: a symbol whose sector's share of the total market value of the
\* current positions exceeds sectorCap is excluded, with the reason "sector
\* cap exceeded"; a symbol in a sector that holds no current position is
\* never given that reason.
C10_SectorCap ==
  Analyzed =>
    \A n \in DOMAIN aResult.symbols :
      LET symbol == aResult.symbols[n]
          sector == SectorIn(symbol)
      IN  /\ ( /\ ValueOf(Valued) # RZero
               /\ RLt(aConfig.sectorCap,
                      RDiv(SectorValue(sector), ValueOf(Valued))) )
             => (CapReasonFor(symbol) /\ symbol \notin CandidateSymbols)
          /\ (\A i \in DOMAIN aPositions :
                SectorIn(aPositions[i].symbol) # sector)
             => ~CapReasonFor(symbol)

C10_Witness ==
  /\ Analyzed
  /\ aPositions = <<Pos("AAPL", Rat(700, 1)), Pos("XOM", Rat(300, 1))>>
  /\ aConfig.sectorCap = Rat(1, 2)
  /\ aResult.symbols = <<"MSFT", "PFE">>
  /\ CapReasonFor("MSFT")
  /\ CandidateSymbols = {"PFE"}

\* the industry the filter uses for a symbol
IndustryIn(symbol) ==
  IF symbol \in DOMAIN aData.fundamentals
     /\ aData.fundamentals[symbol].industry # NullStr
  THEN aData.fundamentals[symbol].industry
  ELSE "unknown"

IndustryValue(industry) ==
  ValueOf({i \in Valued : IndustryIn(aPositions[i].symbol) = industry})

\* the total the shares are taken of: the market value of the current
\* positions, or 1 when that is 0
CurrentTotal == IF ValueOf(Valued) = RZero THEN ROne ELSE ValueOf(Valued)

HasReason(symbol, reason) ==
  \E i \in DOMAIN aResult.excluded :
    /\ aResult.excluded[i].symbol = symbol
    /\ \E j \in DOMAIN aResult.excluded[i].reasons :
         aResult.excluded[i].reasons[j] = reason

\* the notional of the order a candidate could lead to, in dollars
Notionals == {Rat(1, 1), Rat(100, 1), Rat(1000, 1)}

\* the share of `value` in the portfolio once `notional` is added to it
PostInclusion(value, notional) ==
  RDiv(RAdd(value, notional), RAdd(ValueOf(Valued), notional))

\* C11 as stated: the weights compared against sectorCap and industryCap
\* include the candidate's own hypothetical notional, so for some notional a
\* symbol is given the cap reason exactly when its post-inclusion share
\* exceeds the cap.
C11_PostInclusionWeights ==
  Analyzed =>
    \E notional \in Notionals :
      \A n \in DOMAIN aResult.symbols :
        LET symbol == aResult.symbols[n]
        IN  /\ HasReason(symbol, "sector cap exceeded")
                <=> RLt(aConfig.sectorCap,
                        PostInclusion(SectorValue(SectorIn(symbol)), notional))
            /\ HasReason(symbol, "industry cap exceeded")
                <=> RLt(aConfig.industryCap,
                        PostInclusion(IndustryValue(IndustryIn(symbol)), notional))

\* C11 (amended): the weights compared against sectorCap and industryCap are
\* the current weights: the market value of the current positions in the
\* symbol's sector or industry divided by the total market value of the
\* current positions (by 1 when that total is 0). The candidate's own
\* notional is not part of them.
C11_CurrentWeights ==
  Analyzed =>
    \A n \in DOMAIN aResult.symbols :
      LET symbol == aResult.symbols[n]
      IN  /\ HasReason(symbol, "sector cap exceeded")
              <=> RLt(aConfig.sectorCap,
                      RDiv(SectorValue(SectorIn(symbol)), CurrentTotal))
          /\ HasReason(symbol, "industry cap exceeded")
              <=> RLt(aConfig.industryCap,
                      RDiv(IndustryValue(IndustryIn(symbol)), CurrentTotal))

\* XOM's industry holds 0.3 of the portfolio, under the cap of 0.35; an order
\* of 100 dollars would bring it to 400/1100, over the cap
C11_Witness ==
  /\ Analyzed
  /\ aPositions = <<Pos("AAPL", Rat(700, 1)), Pos("XOM", Rat(300, 1))>>
  /\ aConfig.industryCap = Rat(35, 100)
  /\ "XOM" \in CandidateSymbols
  /\ RLt(aConfig.industryCap, PostInclusion(IndustryValue("Oil"), Rat(100, 1)))

\* the rules of the exclusion filter, in the order of the filter, each with the
\* reason it records
RuleReasons ==
  <<"excluded symbol", "excluded sector", "excluded industry",
    "red flag: market cap below minimum", "red flag: dollar volume below minimum",
    "red flag: drawdown exceeds max", "red flag: legal issues",
    "red flag: accounting anomaly", "red flag: regulatory overhang",
    "red flag: high short interest", "correlation above max",
    "sector cap exceeded", "industry cap exceeded">>

\* the place of a reason in the fixed order; the red flags share one place
RankOf(reason) ==
  LET k == CHOOSE i \in DOMAIN RuleReasons : RuleReasons[i] = reason
  IN  IF k <= 3 THEN k ELSE IF k <= 10 THEN 4 ELSE k - 6

\* a risk flag of the symbol is set
RiskFlag(symbol, flag) ==
  symbol \in DOMAIN aData.risk /\ aData.risk[symbol][flag]

\* the rule with the k-th reason matches the symbol
RuleMatches(k, symbol) ==
  CASE k = 1 -> symbol \in aConfig.excludeSymbols
    [] k = 2 -> SectorIn(symbol) \in aConfig.excludeSectors
    [] k = 3 -> IndustryIn(symbol) \in aConfig.excludeIndustries
    [] k = 4 -> /\ RLt(RZero, aConfig.minMarketCap)
                /\ symbol \in DOMAIN aData.fundamentals
                /\ aData.fundamentals[symbol].marketCap # NullRat
                /\ RLt(aData.fundamentals[symbol].marketCap, aConfig.minMarketCap)
    [] k = 5 -> /\ RLt(RZero, aConfig.minDollarVolume)
                /\ symbol \in DOMAIN aData.liquidity
                /\ aData.liquidity[symbol].avgDollarVolume # NullRat
                /\ RLt(aData.liquidity[symbol].avgDollarVolume,
                       aConfig.minDollarVolume)
    [] k = 6 -> /\ RLt(RZero, aConfig.maxDrawdown)
                /\ symbol \in DOMAIN aData.technicals
                /\ aData.technicals[symbol].maxDrawdown # NullRat
                /\ RLt(aConfig.maxDrawdown, aData.technicals[symbol].maxDrawdown)
    [] k = 7 -> RiskFlag(symbol, "legalIssues")
    [] k = 8 -> RiskFlag(symbol, "accountingAnomaly")
    [] k = 9 -> RiskFlag(symbol, "regulatoryOverhang")
    [] k = 10 -> RiskFlag(symbol, "highShortInterest")
    [] k = 11 -> /\ symbol \in DOMAIN aData.technicals
                 /\ aData.technicals[symbol].correlationWithPortfolio # NullRat
                 /\ RLt(aConfig.maxCorrelation,
                        aData.technicals[symbol].correlationWithPortfolio)
    [] k = 12 -> RLt(aConfig.sectorCap,
                     RDiv(SectorValue(SectorIn(symbol)), CurrentTotal))
    [] k = 13 -> RLt(aConfig.industryCap,
                     RDiv(IndustryValue(IndustryIn(symbol)), CurrentTotal))

\* C12: for every symbol the filter records the reason of every rule that
\* matches and of no other rule, each once, in the fixed order (denylisted
\* symbol, sector, industry, red flags, correlation, sector cap, industry
\* cap); a symbol with a matching rule is in excluded and is no candidate, a
\* symbol without one is in excluded under no reason.
C12_AllReasonsInOrder ==
  Analyzed =>
    /\ \A n \in DOMAIN aResult.symbols :
         LET symbol == aResult.symbols[n]
         IN  /\ \A k \in DOMAIN RuleReasons :
                  RuleMatches(k, symbol) <=> HasReason(symbol, RuleReasons[k])
             /\ (\E k \in DOMAIN RuleReasons : RuleMatches(k, symbol))
                  => symbol \notin CandidateSymbols
             /\ (\A k \in DOMAIN RuleReasons : ~RuleMatches(k, symbol))
                  => symbol \notin ExcludedSymbols
    /\ \A e \in DOMAIN aResult.excluded :
         LET reasons == aResult.excluded[e].reasons
         IN  /\ Len(reasons) > 0
             /\ \A i \in DOMAIN reasons :
                  \E k \in DOMAIN RuleReasons : reasons[i] = RuleReasons[k]
             /\ \A i, j \in DOMAIN reasons :
                  i < j => /\ reasons[i] # reasons[j]
                           /\ RankOf(reasons[i]) <= RankOf(reasons[j])

\* XOM matches a denylist, three red flags and both caps at once
C12_Witness ==
  /\ Analyzed
  /\ \E e \in DOMAIN aResult.excluded :
       /\ aResult.excluded[e].symbol = "XOM"
       /\ Len(aResult.excluded[e].reasons) >= 5
       /\ aResult.excluded[e].reasons[1] = "excluded sector"
       /\ aResult.excluded[e].reasons[2] = "red flag: legal issues"
       /\ aResult.excluded[e].reasons[3] = "red flag: high short interest"
       /\ aResult.excluded[e].reasons[Len(aResult.excluded[e].reasons)]
            = "industry cap exceeded"
  /\ "XOM" \notin CandidateSymbols

InUnitRange(x) == RLe(RZero, x) /\ RLe(x, ROne)

\* C15: for every candidate of an analysis, confidence lies in [0,1] and equals
\* clamp(0.7 * score + 0.3 * dataQuality, 0, 1), with score and dataQuality the
\* values stored on that candidate.
C15_ConfidenceFromScore ==
  Analyzed =>
    \A i \in DOMAIN aResult.candidates :
      LET c == aResult.candidates[i]
      IN  /\ InUnitRange(c.confidence)
          /\ c.confidence =
               clamp(RAdd(RMul(Rat(7, 10), c.score), RMul(Rat(3, 10), c.dataQuality)),
                     RZero, ROne)

\* both calls have returned
AnalyzedTwice == Analyzed /\ aAgain # NoAnalysis

\* C16: two calls of buildResearchAnalysis on the same symbols, snapshots,
\* positions, research data and configuration return the same analysis,
\* whatever the wall-clock time of each call.
C16_SameOutput == AnalyzedTwice => aAgain = aResult

\* the mean of the dataQuality of the ranked candidates, 0.5 when none
CandidateQualityMean ==
  IF Len(aResult.candidates) = 0 THEN Rat(1, 2)
  ELSE RDiv(RSumSeq([i \in DOMAIN aResult.candidates |->
                      aResult.candidates[i].dataQuality]),
            Rat(Len(aResult.candidates), 1))

\* C29: the dataQuality of an analysis lies in [0,1] and is the mean of the
\* dataQuality of its ranked candidates (0.5 when there are none), for every
\* mix of ranked and excluded symbols.
C29_QualityIsCandidateMean ==
  Analyzed =>
    /\ InUnitRange(aResult.dataQuality)
    /\ aResult.dataQuality = CandidateQualityMean

\* ------------------------------------------------------------------------
\* Properties of a cycle's records and of the base weight vector (under Spec)
\* ------------------------------------------------------------------------
\* the step in which a cycle begins, and the step in which it ends
CycleStarts == activeCycles' > activeCycles
CycleStops == activeCycles' < activeCycles
\* a step of a running cycle, or one taken while it waits, that does not end it
MidCycle == activeCycles > 0 /\ activeCycles' > 0

LatestRecord(table) == table[Len(table)]
Range(table) == {table[i] : i \in DOMAIN table}

\* C17: a cycle that ends, ends with a run record inserted; when it ends
\* because an upstream call made before the decision (account, positions, open
\* orders, movers, snapshots) failed, that record carries an error message.
C17_FailedCycleRecorded ==
  [][ CycleStops =>
        /\ Len(runs') = Len(runs) + 1
        /\ cpc \in {"account", "market"} => LatestRecord(runs').errors # <<>> ]_vars

\* C18: within one cycle the base weight vector is assigned at most once at
\* the start (to the weights of the latest record) and at most once at the end
\* (to the vector the feedback returned, which is then the one record the
\* cycle inserts); no step in between changes it or inserts a record.
C18_WeightsOncePerCycle ==
  [][ /\ CycleStarts =>
           /\ researchWeights' = researchWeights
           /\ \/ weights' = weights
              \/ /\ researchWeights # <<>>
                 /\ weights' = LatestRecord(researchWeights)
      /\ MidCycle => UNCHANGED <<weights, researchWeights>>
      /\ CycleStops =>
           /\ Len(researchWeights') <= Len(researchWeights) + 1
           /\ weights' # weights =>
                /\ Len(researchWeights') = Len(researchWeights) + 1
                /\ weights' = LatestRecord(researchWeights') ]_vars

\* a cycle has ended with a feedback vector that differs from the defaults
C18_Witness ==
  /\ cpc = "idle"
  /\ Len(researchWeights) = 1
  /\ weights = LatestRecord(researchWeights)
  /\ weights # BalancedWeights
  /\ Len(runs) >= 2

\* C19: a cycle starts with the weights of the most recently inserted
\* ResearchWeightRecord as its base vector whenever a record exists; the
\* vector a cycle's feedback produces is inserted as the latest record and so
\* is the base of the next cycle; records are only appended.
C19_LatestRecordIsBase ==
  [][ /\ (CycleStarts /\ researchWeights # <<>>) =>
           weights' = LatestRecord(researchWeights)
      /\ Len(researchWeights') >= Len(researchWeights)
      /\ SubSeq(researchWeights', 1, Len(researchWeights)) = researchWeights
      /\ Len(researchWeights') > Len(researchWeights) =>
           weights' = LatestRecord(researchWeights') ]_vars

\* a cycle has just started from a stored record
C19_Witness ==
  /\ cpc = "account"
  /\ researchWeights # <<>>
  /\ weights = LatestRecord(researchWeights)
  /\ weights # BalancedWeights

\* C20: what a dashboard query reads (the configuration with its weights, the
\* runs, and the tables written with them) does not change from the step after
\* a cycle's start to the step before its end, and the start itself writes no
\* table and installs at most the weights of a stored record; a query served
\* at any await point of a running cycle therefore reads only what completed
\* cycles have committed.
C20_NoPartialResult ==
  [][ /\ MidCycle =>
           UNCHANGED <<weights, runs, paperTrades, nextTradeId, researchWeights,
                       researchErrors>>
      /\ CycleStarts =>
           /\ UNCHANGED <<runs, paperTrades, nextTradeId, researchWeights,
                          researchErrors>>
           /\ weights' # weights => weights' \in Range(researchWeights) ]_vars

\* a query is served while the second cycle waits for the decision
C20_Witness ==
  /\ lastCall = "query"
  /\ cpc = "decide"
  /\ Len(runs) >= 1
  /\ paperTrades # <<>>

\* C25: the run lock is released when a cycle ends, whether runCycle returns
\* or throws: after the step that ends a cycle isRunning is false and it is
\* false whenever no cycle is active, so a trigger that arrives with no cycle
\* active is never turned away as busy (in market hours it starts a cycle).
C25_LockReleased ==
  [][ /\ (CycleStops => ~isRunning')
      /\ (activeCycles' = 0 => ~isRunning')
      /\ (triggers' = triggers + 1 /\ activeCycles = 0 =>
            lastCall' \in {"closed", "started"}) ]_vars

\* a cycle has ended with an error, a later trigger has started a new one
C25_Witness ==
  /\ lastCall = "started" /\ activeCycles = 1 /\ isRunning
  /\ \E i \in DOMAIN runs : runs[i].errors = <<"error">>

\* C28: an open paper trade does not stay open once its horizon has elapsed:
\* a cycle that runs to its end with a price for the trade's symbol in its
\* snapshot closes every trade that was open at its start and has reached
\* its horizon, whatever the trade's entry price.
C28_OpenTradeCloses ==
  [][ CycleEnds =>
        \A i \in DOMAIN openPaperTrades :
          LET trade == openPaperTrades[i]
          IN  ( /\ HorizonReached(trade, now)
                /\ PriceOf(SnapOf(snapshots, trade.symbol)) # NoPrice
                /\ HasRow(paperTrades', trade.id) )
              => ~IsOpen(RowOf(paperTrades', trade.id)) ]_vars

\* ------------------------------------------------------------------------
\* The regime detector and the seven factor scorers, called once on one
\* symbol's research data
\* ------------------------------------------------------------------------
ScoreProfile(f, t, s, news, earnings, insider, institutional, medians, hl, clock) ==
  [f |-> f, t |-> t, snapshot |-> s, news |-> news, earnings |-> earnings,
   insider |-> insider, institutional |-> institutional,
   peerMedians |-> medians, halfLifeDays |-> hl, clock |-> clock]

ScoreProfiles ==
  { \* no research data for the symbol
    ScoreProfile(Undefined, Undefined, Undefined, <<>>, <<>>, Undefined,
                 Undefined, NoMedians, Rat(10, 1), 0),
    \* records without any of the fields read, items without a date
    ScoreProfile(NoMetrics, Indicators(NullRat, NullRat, NullRat, NullRat, NullRat),
                 [bar |-> NullRat, trade |-> NullRat],
                 <<NewsItem(ROne, NullRat, NoDate)>>,
                 <<EarningsCall(Rat(-1, 1), NoDate)>>,
                 Flow(NullRat), Flow(NullRat), NoMedians, Rat(10, 1), 70),
    \* everything favourable
    ScoreProfile(StrongMetrics,
                 Indicators(Rat(50, 1), Rat(1, 10), Rat(2, 10), Rat(3, 10),
                            Rat(100, 1)),
                 [bar |-> Rat(200, 1), trade |-> Rat(90, 1)],
                 <<NewsItem(ROne, Rat(2, 1), 70), NewsItem(ROne, NullRat, 0)>>,
                 <<EarningsCall(ROne, 0)>>,
                 Flow(Rat(2000000, 1)), Flow(Rat(5000000, 1)),
                 Medians(Rat(1, 10), Rat(1, 10), Rat(24, 1), Rat(5, 100)),
                 Rat(7, 1), 70),
    \* everything unfavourable
    ScoreProfile(WeakMetrics,
                 Indicators(RZero, Rat(-1, 10), RZero, Rat(-3, 10), Rat(100, 1)),
                 [bar |-> NullRat, trade |-> Rat(10, 1)],
                 <<NewsItem(Rat(-1, 1), ROne, 0), NewsItem(Rat(-1, 1), ROne, 70)>>,
                 <<EarningsCall(Rat(-1, 1), 70)>>,
                 Flow(Rat(-1000000, 1)), Flow(Rat(-9000000, 1)),
                 Medians(Rat(1, 10), Rat(1, 10), Rat(20, 1), Rat(5, 100)),
                 Rat(14, 1), 70),
    \* values between the thresholds, mixed news
    ScoreProfile(MidMetrics,
                 Indicators(Rat(65, 1), Rat(5, 100), Rat(1, 10), NullRat,
                            Rat(100, 1)),
                 [bar |-> Rat(110, 1), trade |-> NullRat],
                 <<NewsItem(ROne, NullRat, 70), NewsItem(Rat(-1, 1), NullRat, 0)>>,
                 <<EarningsCall(Rat(1, 2), 0), EarningsCall(NullRat, 70)>>,
                 Flow(Rat(500000, 1)), Undefined,
                 Medians(Rat(2, 10), NullRat, Rat(25, 1), RZero),
                 Rat(10, 1), 0),
    \* values outside the ranges the fields are meant to have
    ScoreProfile(OddMetrics,
                 Indicators(Rat(150, 1), Rat(9, 1), Rat(-9, 1), Rat(9, 1),
                            Rat(-100, 1)),
                 [bar |-> Rat(1000, 1), trade |-> NullRat],
                 <<NewsItem(Rat(5, 1), Rat(-3, 1), 0), NewsItem(Rat(-5, 1), Rat(3, 1), 0)>>,
                 <<EarningsCall(Rat(9, 1), 70), EarningsCall(Rat(-9, 1), 0)>>,
                 Flow(Rat(-9000000, 1)), Flow(Rat(9000000, 1)),
                 Medians(Rat(-1, 10), RZero, Rat(-20, 1), Rat(100, 1)),
                 Rat(7, 1), 0) }

MacroInputs ==
  {Macro(vix, riskOn, trend) :
     vix \in {NullRat, RZero, Rat(15, 1), Rat(24, 1), Rat(25, 1), Rat(40, 1)},
     riskOn \in {NullRat, Rat(-1, 1), RZero, Rat(4, 10), Rat(1, 2), Rat(6, 10),
                 ROne, Rat(3, 1)},
     trend \in {NullStr, "up", "down", "flat"}}

NoScores == [regime |-> "none", scores |-> [k \in FactorKeys |-> NullRat]]

InitScores ==
  /\ sIn \in {[macro |-> m, data |-> d] : m \in MacroInputs, d \in ScoreProfiles}
  /\ sOut = NoScores
  /\ aConfig = <<>> /\ aData = <<>> /\ aPositions = <<>> /\ aResult = <<>>
  /\ aSnapshots = <<>> /\ aClock = 0 /\ aAgain = <<>>
  /\ IdleCalls
  /\ InitCycle
  /\ IdleWeights

ScoreFactors ==
  /\ sOut = NoScores
  /\ sOut' = [regime |-> detectRegime(sIn.macro),
              scores |-> FactorScores(sIn.macro, detectRegime(sIn.macro), sIn.data)]
  /\ UNCHANGED <<sIn, aConfig, aData, aPositions, aResult, aSnapshots, aClock,
                 aAgain, callVars, cycleVars, weightVars>>

NextScores == ScoreFactors

SpecScores == InitScores /\ [][NextScores]_vars

Scored == sOut.regime # "none"

\* C13: detectRegime returns one of the four regimes for every macro input and
\* applies its rules in the fixed priority: a vix of 25 or more gives high_vol
\* whatever the other fields are; otherwise a riskOnScore of 0.6 or more with
\* trend up gives risk_on; otherwise a riskOnScore of 0.4 or less with trend
\* down gives risk_off; otherwise neutral. Missing fields match no rule, so
\* with all fields missing the result is neutral.
C13_RegimePriority ==
  Scored =>
    LET macro == sIn.macro
        highVol == macro.vix # NullRat /\ RLe(Rat(25, 1), macro.vix)
        riskOn == /\ macro.riskOnScore # NullRat
                  /\ RLe(Rat(6, 10), macro.riskOnScore)
                  /\ macro.marketTrend = "up"
        riskOff == /\ macro.riskOnScore # NullRat
                   /\ RLe(macro.riskOnScore, Rat(4, 10))
                   /\ macro.marketTrend = "down"
    IN  /\ sOut.regime \in Regimes
        /\ highVol => sOut.regime = "high_vol"
        /\ (~highVol /\ riskOn) => sOut.regime = "risk_on"
        /\ (~highVol /\ ~riskOn /\ riskOff) => sOut.regime = "risk_off"
        /\ (~highVol /\ ~riskOn /\ ~riskOff) => sOut.regime = "neutral"
        /\ macro = Macro(NullRat, NullRat, NullStr) => sOut.regime = "neutral"

\* a volatile market in which the risk_on rule matches as well
C13_Witness ==
  /\ Scored
  /\ sIn.macro = Macro(Rat(25, 1), Rat(6, 10), "up")
  /\ sOut.regime = "high_vol"

\* the inputs a scorer reads are all absent
AllAbsent ==
  /\ sIn.macro = Macro(NullRat, NullRat, NullStr)
  /\ sIn.data.f = Undefined /\ sIn.data.t = Undefined
  /\ sIn.data.snapshot = Undefined
  /\ sIn.data.news = <<>> /\ sIn.data.earnings = <<>>
  /\ sIn.data.insider = Undefined /\ sIn.data.institutional = Undefined

\* C14: for every input each of the seven factor scorers returns a value in
\* [0,1], and returns exactly 0.5 when all of its inputs are absent.
C14_ScoresInUnitRange ==
  Scored =>
    /\ \A k \in FactorKeys : InUnitRange(sOut.scores[k])
    /\ AllAbsent => \A k \in FactorKeys : sOut.scores[k] = Rat(1, 2)

\* ------------------------------------------------------------------------
\* The threshold scorers scorePositive and scoreInverse on pairs of values
\* ------------------------------------------------------------------------
\* (mid, high) of the calls of scorePositive
PositiveThresholds ==
  { <<Rat(5, 100), Rat(15, 100)>>, <<Rat(1, 10), Rat(1, 4)>>,
    <<Rat(3, 100), Rat(8, 100)>>, <<Rat(2, 100), Rat(8, 100)>> }

\* (good, bad) of the calls of scoreInverse
InverseThresholds ==
  { <<ROne, Rat(3, 1)>>, <<Rat(15, 1), Rat(40, 1)>>, <<Rat(3, 1), Rat(10, 1)>>,
    <<Rat(10, 1), Rat(25, 1)>> }

\* growth rates, margins, yields and momentum, in hundredths
PositiveValues ==
  {Rat(k, 100) : k \in {-5, 0, 1, 2, 3, 4, 5, 6, 8, 10, 11, 15, 20, 25, 30}}

\* multiples and debt-to-equity, in tenths
InverseValues ==
  {Rat(k, 10) : k \in {-10, 0, 10, 20, 29, 30, 31, 99, 100, 150, 160, 249,
                       250, 399, 400, 500}}

ThresholdInputs ==
  {[fn |-> "scorePositive", a |-> a, b |-> b, lo |-> th[1], hi |-> th[2]] :
     a \in PositiveValues, b \in PositiveValues, th \in PositiveThresholds}
  \cup
  {[fn |-> "scoreInverse", a |-> a, b |-> b, lo |-> th[1], hi |-> th[2]] :
     a \in InverseValues, b \in InverseValues, th \in InverseThresholds}

NoPair == <<>>

InitThresholds ==
  /\ tIn \in ThresholdInputs
  /\ tOut = NoPair
  /\ xIn = <<>> /\ xOut = <<>>
  /\ aConfig = <<>> /\ aData = <<>> /\ aPositions = <<>> /\ aResult = <<>>
  /\ aSnapshots = <<>> /\ aClock = 0 /\ aAgain = <<>>
  /\ sIn = <<>> /\ sOut = <<>>
  /\ InitCycle
  /\ IdleWeights

\* the scorer named by tIn.fn, applied to one value
ThresholdScore(in, value) ==
  IF in.fn = "scorePositive" THEN scorePositive(value, in.lo, in.hi)
  ELSE scoreInverse(value, in.lo, in.hi)

\* both values of the pair are scored against the same thresholds
ScoreThresholds ==
  /\ tOut = NoPair
  /\ tOut' = [a |-> ThresholdScore(tIn, tIn.a), b |-> ThresholdScore(tIn, tIn.b)]
  /\ UNCHANGED <<tIn, xIn, xOut, aConfig, aData, aPositions, aResult, aSnapshots,
                 aClock, aAgain, sIn, sOut, cycleVars, weightVars>>

NextThresholds == ScoreThresholds

SpecThresholds == InitThresholds /\ [][NextThresholds]_vars

\* the pair has been scored by the named scorer and a <= b
ScoredInOrder(fn) == tOut # NoPair /\ tIn.fn = fn /\ RLe(tIn.a, tIn.b)

\* C24: scoreInverse is monotonically non-increasing: for finite values
\* a <= b and thresholds good < bad, scoreInverse(a) >= scoreInverse(b),
\* including across the boundary value = bad.
C24_InverseNonIncreasing == ScoredInOrder("scoreInverse") => RLe(tOut.b, tOut.a)

\* C30: scorePositive is monotonically non-decreasing: for finite values
\* a <= b and thresholds 0 < mid < high, scorePositive(a) <= scorePositive(b),
\* including just above the midpoint.
C30_PositiveNonDecreasing == ScoredInOrder("scorePositive") => RLe(tOut.a, tOut.b)

\* ------------------------------------------------------------------------
\* The order pipeline of a cycle: applyResearchOverrides and executeActions
\* ------------------------------------------------------------------------
\* A symbol string: its letters in upper case (`name`), whether the string is
\* written in upper case, and whether it carries surrounding whitespace.
Text(name, upper, padded) == [name |-> name, upper |-> upper, padded |-> padded]

\* a symbol as the market data and the configuration write it
Sym(name) == Text(name, TRUE, FALSE)

EmptyText == Text("", TRUE, FALSE)

\* String.prototype.toUpperCase and String.prototype.trim
toUpperCase(s) == [s EXCEPT !.upper = TRUE]
trim(s) == [s EXCEPT !.padded = FALSE]

\* an undefined notional or quantity
NoAmount == -1

\* the notional of an action that names neither notional nor quantity
DefaultNotional == 100

\* an action of the decision
Act(action, symbol, notional, quantity) ==
  [action |-> action, symbol |-> symbol, notional |-> notional,
   quantity |-> quantity]

\* one OrderResult
Result(symbol, side, orderId, error) ==
  [symbol |-> symbol, side |-> side, orderId |-> orderId, error |-> error]

\* the optional parameter allowedSymbols, when the caller passes it
Given(list) == [list |-> list]

\* new Set((allowedSymbols ?? config.trading.symbols).map(toUpperCase))
Allowlist(config, allowedSymbols) ==
  {toUpperCase(x) :
     x \in IF allowedSymbols = Undefined THEN config.symbols
           ELSE allowedSymbols.list}

\* a.symbol?.trim().toUpperCase() ?? ""
ActionSymbol(a) ==
  IF a.symbol = Undefined THEN EmptyText ELSE toUpperCase(trim(a.symbol))

\* a.notional ?? (a.quantity != null ? undefined : 100)
CheckedNotional(a) ==
  IF a.notional # NoAmount THEN a.notional
  ELSE IF a.quantity # NoAmount THEN NoAmount ELSE DefaultNotional

\* maxNotional != null && notional != null && notional > maxNotional
ExceedsMax(maxNotional, notional) ==
  maxNotional # NoAmount /\ notional # NoAmount /\ notional > maxNotional

\* the dry-run test is skipped
SkipsForDryRun_Never(dryRun) == FALSE

\* if (dryRun) { results.push(...); continue; }
SkipsForDryRun(dryRun) == dryRun

\* the parameters handed to alpaca.placeOrder
OrderParams(a) ==
  [symbol |-> ActionSymbol(a), side |-> a.action, qty |-> a.quantity,
   notional |-> IF a.notional # NoAmount THEN a.notional
                ELSE IF a.quantity = NoAmount THEN CheckedNotional(a)
                ELSE NoAmount]

\* one iteration of the loop of executeActions: the result pushed and the
\* placeOrder call made, if any; `rejected` is the set of symbols whose order
\* the broker refuses
ExecuteAction(a, maxNotional, dryRun, allowlist, rejected) ==
  LET symbol == ActionSymbol(a)
      none == <<>>
  IN  IF symbol = EmptyText
      THEN [result |-> Result(Sym("?"), a.action, "", "Missing symbol"),
            calls |-> none]
      ELSE IF a.action = "hold"
      THEN [result |-> Result(symbol, "hold", "", ""), calls |-> none]
      ELSE IF symbol \notin allowlist
      THEN [result |-> Result(symbol, a.action, "", "Symbol not in allowlist"),
            calls |-> none]
      ELSE IF SkipsForDryRun(dryRun)
      THEN [result |-> Result(symbol, a.action, "", "Dry run - no order placed"),
            calls |-> none]
      ELSE IF ExceedsMax(maxNotional, CheckedNotional(a))
      \* `Notional ${notional} exceeds max ${maxNotional}`
      THEN [result |-> Result(symbol, a.action, "", "Notional exceeds max"),
            calls |-> none]
      ELSE IF symbol \in rejected
      THEN [result |-> Result(symbol, a.action, "", "order rejected"),
            calls |-> <<OrderParams(a)>>]
      ELSE [result |-> Result(symbol, a.action, "order-id", ""),
            calls |-> <<OrderParams(a)>>]

RECURSIVE executeActions(_, _, _, _, _)
executeActions(config, actions, dryRun, allowedSymbols, rejected) ==
  IF actions = <<>> THEN [results |-> <<>>, calls |-> <<>>]
  ELSE LET first == ExecuteAction(actions[1], config.maxOrderNotional, dryRun,
                                  Allowlist(config, allowedSymbols), rejected)
           rest == executeActions(config, Tail(actions), dryRun, allowedSymbols,
                                  rejected)
       IN  [results |-> <<first.result>> \o rest.results,
            calls |-> first.calls \o rest.calls]

\* new Map(entries.map(e => [e.symbol, e])).has(symbol) and .get(symbol): the
\* last entry written for a key is the one kept
HasEntry(entries, symbol) == \E i \in DOMAIN entries : entries[i].symbol = symbol

LastEntry(entries, symbol) ==
  entries[CHOOSE i \in DOMAIN entries :
            /\ entries[i].symbol = symbol
            /\ \A k \in DOMAIN entries : entries[k].symbol = symbol => k <= i]

\* adversarial?.reviews ?? []
ReviewsOf(adversarial) ==
  IF adversarial = Undefined THEN <<>> ELSE adversarial.reviews

\* the body of actions.map in applyResearchOverrides
OverrideAction(action, researchContext, adversarial, confidenceFloor) ==
  LET symbol == toUpperCase(action.symbol)
      reviews == ReviewsOf(adversarial)
      candidates == researchContext.analysis.candidates
  IN  IF action.action = "hold" THEN action
      ELSE IF HasEntry(researchContext.excludedSymbols, symbol)
      THEN [action EXCEPT !.action = "hold"]
      ELSE IF HasEntry(reviews, symbol) /\ LastEntry(reviews, symbol).shouldDrop
      THEN [action EXCEPT !.action = "hold"]
      ELSE IF /\ HasEntry(candidates, symbol)
              /\ RLt(LastEntry(candidates, symbol).confidence, confidenceFloor)
      THEN [action EXCEPT !.action = "hold"]
      ELSE action

applyResearchOverrides(actions, researchContext, adversarial, confidenceFloor) ==
  IF researchContext.analysis = Undefined THEN actions
  ELSE [i \in DOMAIN actions |->
          OverrideAction(actions[i], researchContext, adversarial, confidenceFloor)]

\* action.symbol.toUpperCase() on an action without a symbol is a TypeError
OverridesThrow(actions, researchContext) ==
  /\ researchContext.analysis # Undefined
  /\ \E i \in DOMAIN actions :
       actions[i].action # "hold" /\ actions[i].symbol = Undefined

\* researchContext.eligibleSymbols.length > 0 ? eligibleSymbols : researchSymbols
ResearchUniverse(researchContext) ==
  IF Len(researchContext.eligibleSymbols) > 0
  THEN Range(researchContext.eligibleSymbols)
  ELSE Range(researchContext.researchSymbols)

\* the set behind `symbols` of runCycle, after .filter(Boolean)
CycleSymbols(in) ==
  (in.config.symbols \cup in.positionSymbols \cup ResearchUniverse(in.researchContext)
     \cup in.config.marketConditionSymbols \cup in.openTradeSymbols)
  \ {EmptyText}

\* the try block of runCycle from applyResearchOverrides to executeActions:
\* the actions after the overrides, the results and the placeOrder calls
TryBlock(in) ==
  IF OverridesThrow(in.actions, in.researchContext)
  THEN [called |-> TRUE, threw |-> TRUE, actions |-> in.actions,
        ordersPlaced |-> <<>>, calls |-> <<>>]
  ELSE LET actions == applyResearchOverrides(in.actions, in.researchContext,
                        in.adversarial, in.config.confidenceFloor)
           done == executeActions(in.config, actions, in.config.dryRun,
                                  Given(CycleSymbols(in)), in.rejected)
       IN  [called |-> TRUE, threw |-> FALSE, actions |-> actions,
            ordersPlaced |-> done.results, calls |-> done.calls]

\* --- inputs of the order pipeline ---
\* config.trading: SYMBOLS = AAPL,XOM and MARKET_CONDITION_SYMBOLS = SPY
TradingConfig(dryRun, maxOrderNotional) ==
  [symbols |-> {Sym("AAPL"), Sym("XOM")},
   marketConditionSymbols |-> {Sym("SPY")},
   dryRun |-> dryRun,
   maxOrderNotional |-> maxOrderNotional,
   confidenceFloor |-> Rat(6, 10)]

\* MAX_ORDER_NOTIONAL unset, 75 or 500 dollars
TradingConfigs ==
  {TradingConfig(dryRun, m) : dryRun \in BOOLEAN, m \in {NoAmount, 75, 500}}

Candidate(symbol, confidence) == [symbol |-> symbol, confidence |-> confidence]
ExcludedSymbol(symbol) == [symbol |-> symbol, reasons |-> <<"excluded sector">>]
Review(symbol, shouldDrop) == [symbol |-> symbol, shouldDrop |-> shouldDrop]

\* EMPTY_RESEARCH, returned when researchMode is off
NoResearch ==
  [analysis |-> Undefined, eligibleSymbols |-> <<>>, excludedSymbols |-> <<>>,
   researchSymbols |-> <<>>]

\* the context built from an analysis of researchSymbols
Context(researchSymbols, candidates, excluded) ==
  [analysis |-> [candidates |-> candidates],
   eligibleSymbols |-> [i \in DOMAIN candidates |-> candidates[i].symbol],
   excludedSymbols |-> excluded,
   researchSymbols |-> researchSymbols]

ResearchContexts ==
  { NoResearch,
    \* TSLA ranked with high and PFE with low confidence, XOM excluded
    Context(<<Sym("TSLA"), Sym("PFE"), Sym("XOM")>>,
            <<Candidate(Sym("TSLA"), Rat(8, 10)), Candidate(Sym("PFE"), Rat(3, 10))>>,
            <<ExcludedSymbol(Sym("XOM"))>>),
    \* every research symbol excluded
    Context(<<Sym("XOM"), Sym("TSLA")>>, <<>>,
            <<ExcludedSymbol(Sym("XOM")), ExcludedSymbol(Sym("TSLA"))>>) }

\* the adversarial review: the call failed (null), no symbol to drop, or
\* TSLA to drop
Adversarials ==
  { Undefined,
    [reviews |-> <<>>],
    [reviews |-> <<Review(Sym("TSLA"), TRUE), Review(Sym("AAPL"), FALSE)>>] }

\* actions the decision can hold: symbols as the model writes them (upper or
\* lower case, with or without surrounding whitespace, empty or missing),
\* sized by notional, by quantity or by neither
ActionKinds ==
  { Act("buy", Sym("AAPL"), 50, NoAmount),
    Act("buy", Sym("AAPL"), NoAmount, 10),
    Act("sell", Text("AAPL", FALSE, FALSE), NoAmount, NoAmount),
    Act("buy", Sym("TSLA"), 600, NoAmount),
    Act("buy", Sym("TSLA"), 50, NoAmount),
    Act("buy", Sym("XOM"), 50, NoAmount),
    Act("buy", Text("XOM", TRUE, TRUE), 50, NoAmount),
    Act("buy", Sym("PFE"), 50, NoAmount),
    Act("buy", Sym("GME"), 50, NoAmount),
    Act("sell", Sym("MSFT"), NoAmount, 1),
    Act("hold", Sym("AAPL"), NoAmount, NoAmount),
    Act("buy", Text("", TRUE, TRUE), 50, NoAmount),
    Act("buy", Undefined, 50, NoAmount) }

MaxActions == 2

ActionLists == UNION {[1..n -> ActionKinds] : n \in 0..MaxActions}

\* MSFT is the held position; the broker refuses orders for it; a share of
\* any symbol costs 100 dollars
OrderInputs ==
  {[config |-> c, researchContext |-> r, adversarial |-> a, actions |-> l,
    positionSymbols |-> {Sym("MSFT")}, openTradeSymbols |-> {Sym("AAPL")},
    rejected |-> {Sym("MSFT")}, sharePrice |-> 100] :
     c \in TradingConfigs, r \in ResearchContexts, a \in Adversarials,
     l \in ActionLists}

NotTraded ==
  [called |-> FALSE, threw |-> FALSE, actions |-> <<>>, ordersPlaced |-> <<>>,
   calls |-> <<>>]

InitOrders ==
  /\ xIn \in OrderInputs
  /\ xOut = NotTraded
  /\ tIn = <<>> /\ tOut = <<>>
  /\ aConfig = <<>> /\ aData = <<>> /\ aPositions = <<>> /\ aResult = <<>>
  /\ aSnapshots = <<>> /\ aClock = 0 /\ aAgain = <<>>
  /\ sIn = <<>> /\ sOut = <<>>
  /\ InitCycle
  /\ IdleWeights

\* the decision of a cycle goes through the overrides and the executor
PlaceOrders ==
  /\ xOut = NotTraded
  /\ xOut' = TryBlock(xIn)
  /\ UNCHANGED <<xIn, tIn, tOut, aConfig, aData, aPositions, aResult, aSnapshots,
                 aClock, aAgain, sIn, sOut, cycleVars, weightVars>>

NextOrders == PlaceOrders

SpecOrders == InitOrders /\ [][NextOrders]_vars

\* ------------------------------------------------------------------------
\* Properties of the orders of a cycle (under SpecOrders)
\* ------------------------------------------------------------------------
\* the decision has gone through the pipeline
Traded == xOut.called

\* the placeOrder calls of the cycle
Calls == Range(xOut.calls)

\* C21: every order passed to alpaca.placeOrder is for a symbol of
\* config.trading.symbols.
C21_OnlyConfiguredSymbols ==
  Traded => \A call \in Calls : call.symbol \in xIn.config.symbols

\* the action is a buy or a sell on a symbol of the executor's allowlist
OnAllowedSymbol(a) ==
  /\ a.action \in {"buy", "sell"}
  /\ ActionSymbol(a) \in Allowlist(xIn.config, Given(CycleSymbols(xIn)))

\* C22: with dryRun = true executeActions makes no placeOrder call, and every
\* buy or sell action on an allowed symbol gets a result with the error
\* 'Dry run - no order placed'.
C22_DryRunPlacesNoOrder ==
  (Traded /\ xIn.config.dryRun) =>
    /\ Calls = {}
    /\ ~xOut.threw =>
         \A i \in DOMAIN xOut.actions :
           OnAllowedSymbol(xOut.actions[i]) =>
             /\ xOut.ordersPlaced[i].error = "Dry run - no order placed"
             /\ xOut.ordersPlaced[i].orderId = ""

\* a dry run over two actions, one of them a trade on an allowed symbol that
\* is answered with the dry-run error, the other one answered otherwise
C22_Witness ==
  /\ Traded /\ xIn.config.dryRun /\ ~xOut.threw
  /\ Len(xOut.actions) = 2
  /\ OnAllowedSymbol(xOut.actions[1])
  /\ xOut.ordersPlaced[1].error = "Dry run - no order placed"
  /\ xOut.ordersPlaced[2].error # "Dry run - no order placed"

\* the dollar amount of an order: its notional, or its quantity at the last
\* price of the share
OrderValue(call) ==
  IF call.notional # NoAmount THEN call.notional ELSE call.qty * xIn.sharePrice

\* C23: when MAX_ORDER_NOTIONAL is set, no order passed to placeOrder is worth
\* more than that amount, whether it is sized by notional, by quantity or by
\* neither.
C23_OrdersWithinMax ==
  (Traded /\ xIn.config.maxOrderNotional # NoAmount) =>
    \A call \in Calls : OrderValue(call) <= xIn.config.maxOrderNotional

\* C27: when a research analysis exists, no order is placed for a symbol of
\* the excluded list, for a symbol whose adversarial review has shouldDrop,
\* or for a candidate whose confidence is below confidenceFloor, also when
\* the adversarial review call failed.
C27_NoOrderAgainstResearch ==
  (Traded /\ xIn.researchContext.analysis # Undefined) =>
    \A call \in Calls :
      LET reviews == ReviewsOf(xIn.adversarial)
          candidates == xIn.researchContext.analysis.candidates
      IN  /\ ~HasEntry(xIn.researchContext.excludedSymbols, call.symbol)
          /\ ~(HasEntry(reviews, call.symbol)
                 /\ LastEntry(reviews, call.symbol).shouldDrop)
          /\ ~(HasEntry(candidates, call.symbol)
                 /\ RLt(LastEntry(candidates, call.symbol).confidence,
                        xIn.config.confidenceFloor))

====
